---- MODULE Spec2Model ----
(***************************************************************************)
(* CompWise-CTC payroll calculator: the calculation engine                 *)
(* (computeSlabTax, calculatePayroll) of Calculator2.jsx, its copy inside  *)
(* the usePayrollCalculator hook of Calculator1.jsx and the enhanced copy  *)
(* of EmployeeManager.jsx, driven by the Month Days / Payment Days inputs  *)
(* of the three calculators; and computeSlabTax on its own.                *)
(*                                                                         *)
(* JavaScript numbers are modelled as exact rationals [n, d] in lowest     *)
(* terms with d > 0; Infinity is [n |-> 1, d |-> 0].  Math.round is        *)
(* floor(x + 1/2).  Binary floating point error is not modelled.           *)
(***************************************************************************)
EXTENDS Integers, Sequences, FiniteSets, TLC

VARIABLES
    selectedCalculator,          \* which calculator component is mounted
    inputMode,                   \* "annual" | "monthly"
    annualGross,                 \* Annual Gross input
    grossMonthlyManual,          \* Monthly Gross input
    fixed,                       \* fixed allowances {conveyance, medical, lunch}
    policy,                      \* compensation policy
    monthDays,                   \* Month Days input
    paymentDays,                 \* Payment Days input
    additionalExemptionsAnnual,  \* Additional Exemptions (Annual) input
    customEarnings,              \* enhanced calculator: custom earning amounts
    customDeductions,            \* enhanced calculator: custom deduction amounts
    result,                      \* the memoised result of the last render
    slabCall,                    \* computeSlabTax alone: its arguments
    slabTax,                     \* computeSlabTax alone: what it returned
    slabRun,                     \* computeSlabTax alone: its loop (i, tax, last) while it runs
    exported,                    \* the payload of the last ERPNext export
    employee,                    \* the employee shown by the calculator
    presets,                     \* the preset list, handed to EmployeeManager
    showAddForm,                 \* EmployeeManager: the add form is open
    newEmployeeMode,             \* EmployeeManager: its inputMode, "monthly" | "annual"
    newEmployee,                 \* EmployeeManager: the add form
    lastCall                     \* the preset handler called last, with its arguments

vars == <<selectedCalculator, inputMode, annualGross, grossMonthlyManual, fixed,
          policy, monthDays, paymentDays, additionalExemptionsAnnual,
          customEarnings, customDeductions, result, slabCall, slabTax, slabRun, exported,
          employee, presets, showAddForm, newEmployeeMode, newEmployee, lastCall>>

\* the preset list and EmployeeManager
managerVars == <<employee, presets, showAddForm, newEmployeeMode, newEmployee, lastCall>>

(***************************************************************************)
(* JavaScript numbers as rationals                                         *)
(***************************************************************************)
Abs(x) == IF x < 0 THEN -x ELSE x

RECURSIVE Gcd(_, _)
Gcd(a, b) == IF b = 0 THEN a ELSE Gcd(b, a % b)

\* the number n/d (d # 0) in lowest terms
Num(n, d) ==
    LET g == Gcd(Abs(n), Abs(d))
        s == IF d < 0 THEN -1 ELSE 1
    IN  [n |-> s * (n \div g), d |-> s * (d \div g)]

Int2Num(i) == [n |-> i, d |-> 1]
Zero == Int2Num(0)
One == Int2Num(1)
Infinity == [n |-> 1, d |-> 0]

IsFinite(x) == x.d > 0
IsInteger(x) == x.d = 1

Less(x, y) == x.n * y.d < y.n * x.d
Leq(x, y) == x.n * y.d <= y.n * x.d

\* sums, differences and products; two integers need no reduction to lowest terms
Add(x, y) ==
    IF x.d = 1 /\ y.d = 1 THEN [n |-> x.n + y.n, d |-> 1]
    ELSE Num(x.n * y.d + y.n * x.d, x.d * y.d)
Sub(x, y) ==
    IF x.d = 1 /\ y.d = 1 THEN [n |-> x.n - y.n, d |-> 1]
    ELSE Num(x.n * y.d - y.n * x.d, x.d * y.d)
Mul(x, y) ==
    IF x.d = 1 /\ y.d = 1 THEN [n |-> x.n * y.n, d |-> 1]
    ELSE Num(x.n * y.n, x.d * y.d)
\* x / y for y > 0 (every division of the engine has a positive divisor)
Div(x, y) == Num(x.n * y.d, x.d * y.n)

\* Math.min, Math.max
MathMin(x, y) == IF Less(y, x) THEN y ELSE x
MathMax(x, y) == IF Less(x, y) THEN y ELSE x

\* Math.round: the nearest integer, halves rounded towards +Infinity
MathRound(x) == Int2Num((2 * x.n + x.d) \div (2 * x.d))

\* `v || 0` on a number: 0 (the only falsy finite number) stays 0
OrZero(v) == IF v = Zero THEN Zero ELSE v

\* a percentage v% as a number
Pct(v) == Num(v, 100)

\* array.reduce((a, b) => a + b, 0)
RECURSIVE SumFrom(_, _)
SumFrom(s, i) == IF i > Len(s) THEN Zero ELSE Add(s[i], SumFrom(s, i + 1))
Sum(s) == SumFrom(s, 1)

(***************************************************************************)
(* JavaScript numbers as IEEE 754 doubles (EmployeeManager's add form)     *)
(***************************************************************************)
\* a double is its significand m, a natural of SignificandBits bits, and the exponent e of
\* its last bit: the value is m * 2^e; 0 has no significand
SignificandBits == 53

DoubleZero == [m |-> <<>>, e |-> 0]

\* naturals beyond 31 bits are held as limbs of 15 bits, the most significant first
Limb == 2 ^ 15

RECURSIVE LimbsOf(_)
LimbsOf(n) == IF n = 0 THEN <<>> ELSE Append(LimbsOf(n \div Limb), n % Limb)

RECURSIVE StripZeros(_)
StripZeros(limbs) ==
    IF limbs # <<>> /\ limbs[1] = 0 THEN StripZeros(Tail(limbs)) ELSE limbs

RECURSIVE TimesSmall(_, _, _)
\* limbs * c + carry for c <= Limb: schoolbook multiplication from the last limb
TimesSmall(limbs, c, carry) ==
    IF limbs = <<>> THEN LimbsOf(carry)
    ELSE LET t == limbs[Len(limbs)] * c + carry
         IN  Append(TimesSmall(SubSeq(limbs, 1, Len(limbs) - 1), c, t \div Limb), t % Limb)

RECURSIVE DivSmall(_, _, _, _)
\* the quotient q and the remainder r of limbs / d for d <= Limb: long division
DivSmall(limbs, d, r, q) ==
    IF limbs = <<>> THEN [q |-> StripZeros(q), r |-> r]
    ELSE LET t == r * Limb + limbs[1]
         IN  DivSmall(Tail(limbs), d, t % d, Append(q, t \div d))

\* the number of binary digits
BitLength(n) == CHOOSE k \in 0 .. 30 : n < 2 ^ k /\ (k = 0 \/ 2 ^ (k - 1) <= n)
BitsIn(limbs) == IF limbs = <<>> THEN 0 ELSE 15 * (Len(limbs) - 1) + BitLength(limbs[1])

\* limbs * 2^s
ShiftLeft(limbs, s) == TimesSmall(limbs, 2 ^ (s % 15), 0) \o [i \in 1 .. (s \div 15) |-> 0]

\* round to nearest, ties to even: the double nearest to (limbs / d) * 2^e
RoundToDouble(limbs, d, e) ==
    IF limbs = <<>> THEN DoubleZero
    ELSE LET need == SignificandBits + 2 - BitsIn(limbs) + BitLength(d)
             s    == IF need > 0 THEN need ELSE 0
             div  == DivSmall(ShiftLeft(limbs, s), d, 0, <<>>)
             t    == BitsIn(div.q) - SignificandBits
             low  == DivSmall(div.q, 2 ^ t, 0, <<>>)
             half == 2 ^ (t - 1)
             up   == \/ low.r > half
                     \/ low.r = half /\ (div.r # 0 \/ low.q[Len(low.q)] % 2 = 1)
             m    == IF up THEN TimesSmall(low.q, 1, 1) ELSE low.q
         IN  IF BitsIn(m) > SignificandBits
             THEN [m |-> DivSmall(m, 2, 0, <<>>).q, e |-> e - s + t + 1]
             ELSE [m |-> m, e |-> e - s + t]

\* the double of a natural number literal
Double(n) == RoundToDouble(LimbsOf(n), 1, 0)

\* x * 12 and x / 12
Times12(x) == RoundToDouble(TimesSmall(x.m, 12, 0), 1, x.e)
Over12(x) == RoundToDouble(x.m, 12, x.e)

RECURSIVE TrailingZeros(_)
\* the number of 0 bits the significand ends in
TrailingZeros(limbs) ==
    LET last == limbs[Len(limbs)]
    IN  IF last = 0 THEN 15 + TrailingZeros(SubSeq(limbs, 1, Len(limbs) - 1))
        ELSE CHOOSE k \in 0 .. 14 : last % 2 ^ k = 0 /\ last % 2 ^ (k + 1) # 0

RECURSIVE NaturalOf(_)
NaturalOf(limbs) ==
    IF limbs = <<>> THEN 0
    ELSE NaturalOf(SubSeq(limbs, 1, Len(limbs) - 1)) * Limb + limbs[Len(limbs)]

\* the double is a whole number
IsWhole(x) == x = DoubleZero \/ x.e + TrailingZeros(x.m) >= 0

\* the value of a double as it enters the engine, for the doubles short enough to be held
NumOf(x) ==
    IF x = DoubleZero THEN Zero
    ELSE LET k == TrailingZeros(x.m)
             n == NaturalOf(DivSmall(SubSeq(x.m, 1, Len(x.m) - (k \div 15)),
                                     2 ^ (k % 15), 0, <<>>).q)
         IN  IF x.e + k >= 0 THEN Int2Num(n * 2 ^ (x.e + k)) ELSE Num(n, 2 ^ (0 - (x.e + k)))

\* parseFloat(value) || 0 on the text of a number input: <<>> (an empty field) or <<n, k>>,
\* the decimal n / 10^k
parseFloatOrZero(value) ==
    IF value = <<>> THEN DoubleZero ELSE RoundToDouble(LimbsOf(value[1]), 10 ^ value[2], 0)

(***************************************************************************)
(* Helpers and defaults of Calculator2.jsx                                 *)
(***************************************************************************)
Slab(upto, rate) == [upto |-> upto, rate |-> rate]

defaultPolicy ==
    [ basicPctOfGross |-> Pct(40),
      hraPctOfBasic   |-> Pct(50),
      pf  |-> [ apply |-> TRUE, employeeRate |-> Pct(12), vpfRate |-> Zero,
                restrictBaseToCeiling |-> TRUE, wageCeiling |-> Int2Num(15000) ],
      esi |-> [ apply |-> FALSE, monthlyThreshold |-> Int2Num(21000),
                employeeRate |-> Num(75, 10000) ],
      pt  |-> [ apply |-> TRUE, monthlyAmount |-> Int2Num(200) ],
      tds |-> [ apply |-> TRUE, regime |-> "new",
                standardDeduction |-> Int2Num(50000),
                rebate87AThreshold |-> Int2Num(700000),
                slabsNew |-> << Slab(Int2Num(300000), Zero),
                                Slab(Int2Num(600000), Pct(5)),
                                Slab(Int2Num(900000), Pct(10)),
                                Slab(Int2Num(1200000), Pct(15)),
                                Slab(Int2Num(1500000), Pct(20)),
                                Slab(Infinity, Pct(30)) >>,
                slabsOld |-> << Slab(Int2Num(250000), Zero),
                                Slab(Int2Num(500000), Pct(5)),
                                Slab(Int2Num(1000000), Pct(20)),
                                Slab(Infinity, Pct(30)) >>,
                cessRate |-> Pct(4) ] ]

\* a preset {name, gross, fixed}
Preset(name, gross, conveyance, medical, lunch) ==
    [ name |-> name, gross |-> Double(gross),
      fixed |-> [conveyance |-> Double(conveyance), medical |-> Double(medical),
                 lunch |-> Double(lunch)] ]

\* Calculator2.jsx
defaultPresets ==
    << Preset("Snigdha Mohapatra", 40000, 1600, 1250, 1150),
       Preset("Pulicharla Gopi Krishna", 30000, 1300, 1200, 1500),
       Preset("Arun Saathappan", 83332, 1600, 1250, 2200) >>

\* Calculator1.jsx
defaultPresets1 == << Preset("Pulicharla Gopi Krishna", 30000, 1300, 1200, 1500) >>

\* EmployeeManager.jsx, the enhanced calculator
defaultPresetsE == << Preset("Pulicharla Gopi Krishna", 50000, 1300, 1200, 1500) >>

\* EmployeeManager: useState of newEmployee, and the reset after addEmployee
newEmployeeBlank ==
    [ name |-> "", monthlyGross |-> Double(40000), annualGross |-> Double(480000),
      conveyance |-> Double(1600), medical |-> Double(1250), lunch |-> Double(1150) ]

(***************************************************************************)
(* computeSlabTax and calculatePayroll of Calculator2.jsx                  *)
(***************************************************************************)
clamp(v, lo, hi) == MathMin(MathMax(v, lo), hi)

\* computeSlabTax: the for-of loop with its running tax and last bound
RECURSIVE slabLoopBreakingFirst(_, _, _, _, _)
\* faulty variant (C20): the loop leaves before the slab holding the amount is charged
slabLoopBreakingFirst(annualTaxable, slabs, i, tax, last) ==
    IF i > Len(slabs) THEN tax
    ELSE LET upto == slabs[i].upto
             rate == slabs[i].rate
             span == Sub(MathMin(annualTaxable, upto), last)
             tax2 == IF Less(Zero, span) THEN Add(tax, Mul(span, rate)) ELSE tax
         IN  IF Leq(annualTaxable, upto) THEN tax
             ELSE slabLoopBreakingFirst(annualTaxable, slabs, i + 1, tax2, upto)

RECURSIVE slabLoop(_, _, _, _, _)
slabLoop(annualTaxable, slabs, i, tax, last) ==
    IF i > Len(slabs) THEN tax
    ELSE LET upto == slabs[i].upto
             rate == slabs[i].rate
             span == Sub(MathMin(annualTaxable, upto), last)
             tax2 == IF Less(Zero, span) THEN Add(tax, Mul(span, rate)) ELSE tax
         IN  IF Leq(annualTaxable, upto) THEN tax2
             ELSE slabLoop(annualTaxable, slabs, i + 1, tax2, upto)

\* faulty variant (C7): the whole amount is taxed at the rate of the slab it falls in
computeSlabTaxAtTopRate(annualTaxable, slabs) ==
    LET i == CHOOSE k \in 1 .. Len(slabs) :
                 /\ Leq(annualTaxable, slabs[k].upto)
                 /\ \A j \in 1 .. (k - 1) : Less(slabs[j].upto, annualTaxable)
    IN  Mul(annualTaxable, slabs[i].rate)

computeSlabTax(annualTaxable, slabs) == slabLoop(annualTaxable, slabs, 1, Zero, Zero)

\* const factor = clamp(paymentDays / Math.max(1, monthDays), 0, 1)
\* faulty variant (C3): every month is taken to have 30 days
\* faulty variant (C25): the ratio of the days without the clamp to [0, 1]
FactorUnclamped(pDays, mDays) == Div(pDays, MathMax(One, mDays))

FactorOfThirtyDays(pDays, mDays) == clamp(Div(pDays, Int2Num(30)), Zero, One)

Factor(pDays, mDays) == clamp(Div(pDays, MathMax(One, mDays)), Zero, One)

BasicFull(monthlyGross, p) == MathRound(Mul(monthlyGross, p.basicPctOfGross))

HraFull(basicFull, p) == MathRound(Mul(basicFull, p.hraPctOfBasic))

FixedFull(fixedAllowances) ==
    MathRound(Add(Add(OrZero(fixedAllowances.conveyance), OrZero(fixedAllowances.medical)),
                  OrZero(fixedAllowances.lunch)))

\* faulty variant (C1): the fixed allowances are not taken out of the gross
SpecialFullRawIgnoringFixed(monthlyGross, basicFull, hraFull, fixedFull) ==
    Sub(monthlyGross, Add(basicFull, hraFull))

SpecialFullRaw(monthlyGross, basicFull, hraFull, fixedFull) ==
    Sub(monthlyGross, Add(Add(basicFull, hraFull), fixedFull))

\* faulty variant (C2): Special Allowance is not clamped at 0
SpecialFullUnclamped(specialFullRaw) == MathRound(specialFullRaw)

SpecialFull(specialFullRaw) == MathRound(MathMax(Zero, specialFullRaw))

FixedTooHigh(specialFullRaw) == Less(specialFullRaw, Zero)

\* const basic = Math.round(basicFull * factor), likewise hra and special
Prorated(full, factor) == MathRound(Mul(full, factor))

MonthlyGrossPayable(basic, hra, special, conveyance, medical, lunch) ==
    Add(Add(Add(Add(Add(basic, hra), special), conveyance), medical), lunch)

\* faulty variant (C8): the wage ceiling is applied before proration
PfBaseCappedBeforeProration(basicFull, factor, p) ==
    IF p.pf.restrictBaseToCeiling
    THEN Mul(MathMin(basicFull, p.pf.wageCeiling), factor)
    ELSE Mul(basicFull, factor)

PfBase(basicFull, factor, p) ==
    IF p.pf.restrictBaseToCeiling
    THEN MathMin(Mul(basicFull, factor), p.pf.wageCeiling)
    ELSE Mul(basicFull, factor)

PfEE(pfBase, p) == IF p.pf.apply THEN MathRound(Mul(pfBase, p.pf.employeeRate)) ELSE Zero

VpfEE(pfBase, p) ==
    IF p.pf.apply /\ Less(Zero, p.pf.vpfRate)
    THEN MathRound(Mul(pfBase, p.pf.vpfRate)) ELSE Zero

EsiEligible(monthlyGross, p) == p.esi.apply /\ Leq(monthlyGross, p.esi.monthlyThreshold)

EsiEE(esiEligible, monthlyGrossPayable, p) ==
    IF esiEligible THEN MathRound(Mul(monthlyGrossPayable, p.esi.employeeRate)) ELSE Zero

Pt(p) == IF p.pt.apply THEN MathRound(OrZero(p.pt.monthlyAmount)) ELSE Zero

\* faulty variant (C11): the additional exemptions are deducted under either regime
TaxableWithExemptionsAlways(monthlyGross, p, exemptions) ==
    MathMax(Zero, Sub(Sub(Mul(monthlyGross, Int2Num(12)), OrZero(p.tds.standardDeduction)),
                      OrZero(exemptions)))

\* const taxable = Math.max(0, annualGross - stdDed - allowedExemptions)
Taxable(monthlyGross, p, exemptions) ==
    LET annualGrossAmt    == Mul(monthlyGross, Int2Num(12))
        stdDed            == OrZero(p.tds.standardDeduction)
        allowedExemptions == IF p.tds.regime = "new" THEN Zero ELSE OrZero(exemptions)
    IN  MathMax(Zero, Sub(Sub(annualGrossAmt, stdDed), allowedExemptions))

\* faulty variant (C6): the 87A rebate is not applied
TaxCoreWithoutRebate(taxable, p) ==
    computeSlabTax(taxable, IF p.tds.regime = "new" THEN p.tds.slabsNew ELSE p.tds.slabsOld)

\* faulty variant (C21): the 87A rebate is granted under either regime
TaxCoreWithRebateInEitherRegime(taxable, p) ==
    LET slabs   == IF p.tds.regime = "new" THEN p.tds.slabsNew ELSE p.tds.slabsOld
        taxCore == computeSlabTax(taxable, slabs)
    IN  IF Leq(taxable, OrZero(p.tds.rebate87AThreshold)) THEN Zero ELSE taxCore

\* let taxCore = computeSlabTax(taxable, slabs); the 87A rebate overrides it with 0
TaxCore(taxable, p) ==
    LET slabs   == IF p.tds.regime = "new" THEN p.tds.slabsNew ELSE p.tds.slabsOld
        taxCore == computeSlabTax(taxable, slabs)
    IN  IF p.tds.regime = "new" /\ Leq(taxable, OrZero(p.tds.rebate87AThreshold))
        THEN Zero
        ELSE taxCore

\* faulty variant (C10): the tax is projected from the prorated gross
AnnualTaxOfProratedGross(a) ==
    LET p == a.policy
        g == Mul(a.monthlyGross, Factor(a.paymentDays, a.monthDays))
    IN  IF p.tds.apply
        THEN MathRound(Mul(TaxCore(Taxable(g, p, a.additionalExemptionsAnnual), p),
                           Add(One, OrZero(p.tds.cessRate))))
        ELSE Zero

\* let tds = 0, annualTax = 0; if (p.tds.apply) { ... }
AnnualTax(a) ==
    LET p == a.policy
    IN  IF p.tds.apply
        THEN MathRound(Mul(TaxCore(Taxable(a.monthlyGross, p,
                                           a.additionalExemptionsAnnual), p),
                           Add(One, OrZero(p.tds.cessRate))))
        ELSE Zero

\* faulty variant (C27, C29): the monthly TDS is a twelfth of the annual tax, not rounded
TdsUnrounded(annualTax, p) == IF p.tds.apply THEN Div(annualTax, Int2Num(12)) ELSE Zero

Tds(annualTax, p) == IF p.tds.apply THEN MathRound(Div(annualTax, Int2Num(12))) ELSE Zero

AnnualEarnings(basicFull, hraFull, specialFull, fixedAllowances) ==
    [ basic      |-> Mul(basicFull, Int2Num(12)),
      hra        |-> Mul(hraFull, Int2Num(12)),
      special    |-> Mul(specialFull, Int2Num(12)),
      conveyance |-> Mul(OrZero(fixedAllowances.conveyance), Int2Num(12)),
      medical    |-> Mul(OrZero(fixedAllowances.medical), Int2Num(12)),
      lunch      |-> Mul(OrZero(fixedAllowances.lunch), Int2Num(12)) ]

AnnualDeductions(monthlyGross, basicFull, hraFull, specialFull, fixedFull, tds, p) ==
    LET base == IF p.pf.restrictBaseToCeiling
                THEN MathMin(basicFull, p.pf.wageCeiling) ELSE basicFull
    IN  [ pfEE  |-> Mul(IF p.pf.apply THEN MathRound(Mul(base, p.pf.employeeRate)) ELSE Zero,
                        Int2Num(12)),
          vpfEE |-> Mul(IF p.pf.apply /\ Less(Zero, p.pf.vpfRate)
                        THEN MathRound(Mul(base, p.pf.vpfRate)) ELSE Zero, Int2Num(12)),
          esiEE |-> Mul(IF p.esi.apply /\ Leq(monthlyGross, p.esi.monthlyThreshold)
                        THEN MathRound(Mul(Add(Add(Add(basicFull, hraFull), specialFull),
                                               fixedFull), p.esi.employeeRate))
                        ELSE Zero, Int2Num(12)),
          pt    |-> Mul(IF p.pt.apply THEN MathRound(OrZero(p.pt.monthlyAmount)) ELSE Zero,
                        Int2Num(12)),
          tds   |-> Mul(tds, Int2Num(12)) ]

TotalDeductions(pfEE, vpfEE, esiEE, pt, tds) ==
    Add(Add(Add(Add(pfEE, vpfEE), esiEE), pt), tds)

\* Object.values(annual.deductions).reduce((a,b)=>a+b,0)
AnnualTotalDeductions(d) == Sum(<<d.pfEE, d.vpfEE, d.esiEE, d.pt, d.tds>>)

AnnualNet(basicFull, hraFull, specialFull, fixedFull, annualTotalDeductions) ==
    Sub(Mul(Add(Add(Add(basicFull, hraFull), specialFull), fixedFull), Int2Num(12)),
        annualTotalDeductions)

calculatePayroll(a) ==
    LET p == a.policy
        factor == Factor(a.paymentDays, a.monthDays)
        basicFull == BasicFull(a.monthlyGross, p)
        hraFull == HraFull(basicFull, p)
        fixedFull == FixedFull(a.fixedAllowances)
        specialFullRaw == SpecialFullRaw(a.monthlyGross, basicFull, hraFull, fixedFull)
        specialFull == SpecialFull(specialFullRaw)
        fixedTooHigh == FixedTooHigh(specialFullRaw)
        basic == Prorated(basicFull, factor)
        hra == Prorated(hraFull, factor)
        special == Prorated(specialFull, factor)
        conveyance == OrZero(a.fixedAllowances.conveyance)
        medical == OrZero(a.fixedAllowances.medical)
        lunch == OrZero(a.fixedAllowances.lunch)
        monthlyGrossPayable == MonthlyGrossPayable(basic, hra, special, conveyance, medical,
                                                   lunch)
        pfBase == PfBase(basicFull, factor, p)
        pfEE == PfEE(pfBase, p)
        vpfEE == VpfEE(pfBase, p)
        esiEligible == EsiEligible(a.monthlyGross, p)
        esiEE == EsiEE(esiEligible, monthlyGrossPayable, p)
        pt == Pt(p)
        annualTax == AnnualTax(a)
        tds == Tds(annualTax, p)
        totalDeductions == TotalDeductions(pfEE, vpfEE, esiEE, pt, tds)
        netPay == Sub(monthlyGrossPayable, totalDeductions)
        annualDeductions == AnnualDeductions(a.monthlyGross, basicFull, hraFull, specialFull,
                                             fixedFull, tds, p)
        annualTotalDeductions == AnnualTotalDeductions(annualDeductions)
        annualNet == AnnualNet(basicFull, hraFull, specialFull, fixedFull,
                               annualTotalDeductions)
    IN  [ flags  |-> [ negativeNet |-> Less(netPay, Zero), esiEligible |-> esiEligible,
                       fixedTooHigh |-> fixedTooHigh ],
          factor |-> factor,
          monthly |->
            [ earnings |-> [ basic |-> basic, hra |-> hra, special |-> special,
                             conveyance |-> conveyance, medical |-> medical, lunch |-> lunch ],
              earningsFull |-> [ basic |-> basicFull, hra |-> hraFull, special |-> specialFull,
                                 conveyance |-> conveyance, medical |-> medical,
                                 lunch |-> lunch ],
              grossPayable |-> monthlyGrossPayable,
              deductions |-> [ pfEE |-> pfEE, vpfEE |-> vpfEE, esiEE |-> esiEE, pt |-> pt,
                               tds |-> tds ],
              totalDeductions |-> totalDeductions,
              netPay |-> netPay ],
          annual |->
            [ earnings |-> AnnualEarnings(basicFull, hraFull, specialFull, a.fixedAllowances),
              gross |-> Mul(a.monthlyGross, Int2Num(12)),
              deductions |-> annualDeductions,
              totalDeductions |-> annualTotalDeductions,
              netPay |-> annualNet,
              taxProjected |-> annualTax ] ]

(***************************************************************************)
(* computeSlabTax and the usePayrollCalculator body of Calculator1.jsx     *)
(***************************************************************************)
\* faulty variant (C4): only the lower bound is enforced
clampBelowOnly(v, lo, hi) == MathMax(v, lo)

clamp1(v, lo, hi) == MathMin(MathMax(v, lo), hi)

\* computeSlabTax: the for-of loop with its running tax and last bound
RECURSIVE slabLoop1(_, _, _, _, _)
slabLoop1(annualTaxable, slabs, i, tax, last) ==
    IF i > Len(slabs) THEN tax
    ELSE LET upto == slabs[i].upto
             rate == slabs[i].rate
             span == Sub(MathMin(annualTaxable, upto), last)
             tax2 == IF Less(Zero, span) THEN Add(tax, Mul(span, rate)) ELSE tax
         IN  IF Leq(annualTaxable, upto) THEN tax2
             ELSE slabLoop1(annualTaxable, slabs, i + 1, tax2, upto)

computeSlabTax1(annualTaxable, slabs) == slabLoop1(annualTaxable, slabs, 1, Zero, Zero)

\* const factor = clamp(paymentDays / Math.max(1, monthDays), 0, 1)
Factor1(pDays, mDays) == clamp1(Div(pDays, MathMax(One, mDays)), Zero, One)

BasicFull1(monthlyGross, p) == MathRound(Mul(monthlyGross, p.basicPctOfGross))

HraFull1(basicFull, p) == MathRound(Mul(basicFull, p.hraPctOfBasic))

FixedFull1(fixedAllowances) ==
    MathRound(Add(Add(OrZero(fixedAllowances.conveyance), OrZero(fixedAllowances.medical)),
                  OrZero(fixedAllowances.lunch)))

SpecialFullRaw1(monthlyGross, basicFull, hraFull, fixedFull) ==
    Sub(monthlyGross, Add(Add(basicFull, hraFull), fixedFull))

SpecialFull1(specialFullRaw) == MathRound(MathMax(Zero, specialFullRaw))

FixedTooHigh1(specialFullRaw) == Less(specialFullRaw, Zero)

\* const basic = Math.round(basicFull * factor), likewise hra and special
Prorated1(full, factor) == MathRound(Mul(full, factor))

MonthlyGrossPayable1(basic, hra, special, conveyance, medical, lunch) ==
    Add(Add(Add(Add(Add(basic, hra), special), conveyance), medical), lunch)

PfBase1(basicFull, factor, p) ==
    IF p.pf.restrictBaseToCeiling
    THEN MathMin(Mul(basicFull, factor), p.pf.wageCeiling)
    ELSE Mul(basicFull, factor)

PfEE1(pfBase, p) == IF p.pf.apply THEN MathRound(Mul(pfBase, p.pf.employeeRate)) ELSE Zero

VpfEE1(pfBase, p) ==
    IF p.pf.apply /\ Less(Zero, p.pf.vpfRate)
    THEN MathRound(Mul(pfBase, p.pf.vpfRate)) ELSE Zero

EsiEligible1(monthlyGross, p) == p.esi.apply /\ Leq(monthlyGross, p.esi.monthlyThreshold)

EsiEE1(esiEligible, monthlyGrossPayable, p) ==
    IF esiEligible THEN MathRound(Mul(monthlyGrossPayable, p.esi.employeeRate)) ELSE Zero

Pt1(p) == IF p.pt.apply THEN MathRound(OrZero(p.pt.monthlyAmount)) ELSE Zero

\* const taxable = Math.max(0, annualGross - stdDed - allowedExemptions)
Taxable1(monthlyGross, p, exemptions) ==
    LET annualGrossAmt    == Mul(monthlyGross, Int2Num(12))
        stdDed            == OrZero(p.tds.standardDeduction)
        allowedExemptions == IF p.tds.regime = "new" THEN Zero ELSE OrZero(exemptions)
    IN  MathMax(Zero, Sub(Sub(annualGrossAmt, stdDed), allowedExemptions))

\* let taxCore = computeSlabTax(taxable, slabs); the 87A rebate overrides it with 0
TaxCore1(taxable, p) ==
    LET slabs   == IF p.tds.regime = "new" THEN p.tds.slabsNew ELSE p.tds.slabsOld
        taxCore == computeSlabTax1(taxable, slabs)
    IN  IF p.tds.regime = "new" /\ Leq(taxable, OrZero(p.tds.rebate87AThreshold))
        THEN Zero
        ELSE taxCore

\* let tds = 0, annualTax = 0; if (p.tds.apply) { ... }
AnnualTax1(a) ==
    LET p == a.policy
    IN  IF p.tds.apply
        THEN MathRound(Mul(TaxCore1(Taxable1(a.monthlyGross, p,
                                           a.additionalExemptionsAnnual), p),
                           Add(One, OrZero(p.tds.cessRate))))
        ELSE Zero

Tds1(annualTax, p) == IF p.tds.apply THEN MathRound(Div(annualTax, Int2Num(12))) ELSE Zero

AnnualEarnings1(basicFull, hraFull, specialFull, fixedAllowances) ==
    [ basic      |-> Mul(basicFull, Int2Num(12)),
      hra        |-> Mul(hraFull, Int2Num(12)),
      special    |-> Mul(specialFull, Int2Num(12)),
      conveyance |-> Mul(OrZero(fixedAllowances.conveyance), Int2Num(12)),
      medical    |-> Mul(OrZero(fixedAllowances.medical), Int2Num(12)),
      lunch      |-> Mul(OrZero(fixedAllowances.lunch), Int2Num(12)) ]

AnnualDeductions1(monthlyGross, basicFull, hraFull, specialFull, fixedFull, tds, p) ==
    LET base == IF p.pf.restrictBaseToCeiling
                THEN MathMin(basicFull, p.pf.wageCeiling) ELSE basicFull
    IN  [ pfEE  |-> Mul(IF p.pf.apply THEN MathRound(Mul(base, p.pf.employeeRate)) ELSE Zero,
                        Int2Num(12)),
          vpfEE |-> Mul(IF p.pf.apply /\ Less(Zero, p.pf.vpfRate)
                        THEN MathRound(Mul(base, p.pf.vpfRate)) ELSE Zero, Int2Num(12)),
          esiEE |-> Mul(IF p.esi.apply /\ Leq(monthlyGross, p.esi.monthlyThreshold)
                        THEN MathRound(Mul(Add(Add(Add(basicFull, hraFull), specialFull),
                                               fixedFull), p.esi.employeeRate))
                        ELSE Zero, Int2Num(12)),
          pt    |-> Mul(IF p.pt.apply THEN MathRound(OrZero(p.pt.monthlyAmount)) ELSE Zero,
                        Int2Num(12)),
          tds   |-> Mul(tds, Int2Num(12)) ]

TotalDeductions1(pfEE, vpfEE, esiEE, pt, tds) ==
    Add(Add(Add(Add(pfEE, vpfEE), esiEE), pt), tds)

\* Object.values(annual.deductions).reduce((a,b)=>a+b,0)
AnnualTotalDeductions1(d) == Sum(<<d.pfEE, d.vpfEE, d.esiEE, d.pt, d.tds>>)

AnnualNet1(basicFull, hraFull, specialFull, fixedFull, annualTotalDeductions) ==
    Sub(Mul(Add(Add(Add(basicFull, hraFull), specialFull), fixedFull), Int2Num(12)),
        annualTotalDeductions)

usePayrollCalculator(a) ==
    LET p == a.policy
        factor == Factor1(a.paymentDays, a.monthDays)
        basicFull == BasicFull1(a.monthlyGross, p)
        hraFull == HraFull1(basicFull, p)
        fixedFull == FixedFull1(a.fixedAllowances)
        specialFullRaw == SpecialFullRaw1(a.monthlyGross, basicFull, hraFull, fixedFull)
        specialFull == SpecialFull1(specialFullRaw)
        fixedTooHigh == FixedTooHigh1(specialFullRaw)
        basic == Prorated1(basicFull, factor)
        hra == Prorated1(hraFull, factor)
        special == Prorated1(specialFull, factor)
        conveyance == OrZero(a.fixedAllowances.conveyance)
        medical == OrZero(a.fixedAllowances.medical)
        lunch == OrZero(a.fixedAllowances.lunch)
        monthlyGrossPayable == MonthlyGrossPayable1(basic, hra, special, conveyance, medical,
                                                   lunch)
        pfBase == PfBase1(basicFull, factor, p)
        pfEE == PfEE1(pfBase, p)
        vpfEE == VpfEE1(pfBase, p)
        esiEligible == EsiEligible1(a.monthlyGross, p)
        esiEE == EsiEE1(esiEligible, monthlyGrossPayable, p)
        pt == Pt1(p)
        annualTax == AnnualTax1(a)
        tds == Tds1(annualTax, p)
        totalDeductions == TotalDeductions1(pfEE, vpfEE, esiEE, pt, tds)
        netPay == Sub(monthlyGrossPayable, totalDeductions)
        annualDeductions == AnnualDeductions1(a.monthlyGross, basicFull, hraFull, specialFull,
                                             fixedFull, tds, p)
        annualTotalDeductions == AnnualTotalDeductions1(annualDeductions)
        annualNet == AnnualNet1(basicFull, hraFull, specialFull, fixedFull,
                               annualTotalDeductions)
    IN  [ flags  |-> [ negativeNet |-> Less(netPay, Zero), esiEligible |-> esiEligible,
                       fixedTooHigh |-> fixedTooHigh ],
          factor |-> factor,
          monthly |->
            [ earnings |-> [ basic |-> basic, hra |-> hra, special |-> special,
                             conveyance |-> conveyance, medical |-> medical, lunch |-> lunch ],
              earningsFull |-> [ basic |-> basicFull, hra |-> hraFull, special |-> specialFull,
                                 conveyance |-> conveyance, medical |-> medical,
                                 lunch |-> lunch ],
              grossPayable |-> monthlyGrossPayable,
              deductions |-> [ pfEE |-> pfEE, vpfEE |-> vpfEE, esiEE |-> esiEE, pt |-> pt,
                               tds |-> tds ],
              totalDeductions |-> totalDeductions,
              netPay |-> netPay ],
          annual |->
            [ earnings |-> AnnualEarnings1(basicFull, hraFull, specialFull, a.fixedAllowances),
              gross |-> Mul(a.monthlyGross, Int2Num(12)),
              deductions |-> annualDeductions,
              totalDeductions |-> annualTotalDeductions,
              netPay |-> annualNet,
              taxProjected |-> annualTax ] ]

(***************************************************************************)
(* computeSlabTax and the enhanced calculatePayroll of EmployeeManager.jsx *)
(***************************************************************************)
clampE(v, lo, hi) == MathMin(MathMax(v, lo), hi)

\* computeSlabTax: the for-of loop with its running tax and last bound
RECURSIVE slabLoopE(_, _, _, _, _)
slabLoopE(annualTaxable, slabs, i, tax, last) ==
    IF i > Len(slabs) THEN tax
    ELSE LET upto == slabs[i].upto
             rate == slabs[i].rate
             span == Sub(MathMin(annualTaxable, upto), last)
             tax2 == IF Less(Zero, span) THEN Add(tax, Mul(span, rate)) ELSE tax
         IN  IF Leq(annualTaxable, upto) THEN tax2
             ELSE slabLoopE(annualTaxable, slabs, i + 1, tax2, upto)

computeSlabTaxE(annualTaxable, slabs) == slabLoopE(annualTaxable, slabs, 1, Zero, Zero)

\* const factor = clamp(paymentDays / Math.max(1, monthDays), 0, 1)
FactorE(pDays, mDays) == clampE(Div(pDays, MathMax(One, mDays)), Zero, One)

BasicFullE(monthlyGross, p) == MathRound(Mul(monthlyGross, p.basicPctOfGross))

HraFullE(basicFull, p) == MathRound(Mul(basicFull, p.hraPctOfBasic))

FixedFullE(fixedAllowances) ==
    MathRound(Add(Add(OrZero(fixedAllowances.conveyance), OrZero(fixedAllowances.medical)),
                  OrZero(fixedAllowances.lunch)))

SpecialFullRawE(monthlyGross, basicFull, hraFull, fixedFull) ==
    Sub(monthlyGross, Add(Add(basicFull, hraFull), fixedFull))

SpecialFullE(specialFullRaw) == MathRound(MathMax(Zero, specialFullRaw))

FixedTooHighE(specialFullRaw) == Less(specialFullRaw, Zero)

\* const basic = Math.round(basicFull * factor), likewise hra and special
\* faulty variant (C19): the prorated amount is left unrounded
ProratedUnrounded(full, factor) == Mul(full, factor)

ProratedE(full, factor) == MathRound(Mul(full, factor))

\* customEarnings.reduce((sum, item) => sum + (item.amount || 0), 0), and the same
\* reduce over customDeductions
RECURSIVE CustomTotalFrom(_, _)
CustomTotalFrom(items, i) ==
    IF i > Len(items) THEN Zero
    ELSE Add(OrZero(items[i].amount), CustomTotalFrom(items, i + 1))

CustomEarningsTotal(customEarningsList) == CustomTotalFrom(customEarningsList, 1)

CustomDeductionsTotal(customDeductionsList) == CustomTotalFrom(customDeductionsList, 1)

\* faulty variant (C5): the custom earnings are left out of the payable gross
MonthlyGrossPayableWithoutCustom(basic, hra, special, conveyance, medical, lunch, customEarningsTotal) ==
    Add(Add(Add(Add(Add(basic, hra), special), conveyance), medical), lunch)

MonthlyGrossPayableE(basic, hra, special, conveyance, medical, lunch, customEarningsTotal) ==
    Add(Add(Add(Add(Add(Add(basic, hra), special), conveyance), medical), lunch),
        customEarningsTotal)

PfBaseE(basicFull, factor, p) ==
    IF p.pf.restrictBaseToCeiling
    THEN MathMin(Mul(basicFull, factor), p.pf.wageCeiling)
    ELSE Mul(basicFull, factor)

PfEEE(pfBase, p) == IF p.pf.apply THEN MathRound(Mul(pfBase, p.pf.employeeRate)) ELSE Zero

\* faulty variant (C17): the voluntary PF is taken whenever its rate is set
VpfOnRateAlone(pfBase, p) ==
    IF Less(Zero, p.pf.vpfRate) THEN MathRound(Mul(pfBase, p.pf.vpfRate)) ELSE Zero

VpfEEE(pfBase, p) ==
    IF p.pf.apply /\ Less(Zero, p.pf.vpfRate)
    THEN MathRound(Mul(pfBase, p.pf.vpfRate)) ELSE Zero

\* faulty variant (C9): a gross equal to the threshold is not eligible
EsiEligibleBelowThreshold(monthlyGross, p) ==
    p.esi.apply /\ Less(monthlyGross, p.esi.monthlyThreshold)

EsiEligibleE(monthlyGross, p) == p.esi.apply /\ Leq(monthlyGross, p.esi.monthlyThreshold)

EsiEEE(esiEligible, monthlyGrossPayable, p) ==
    IF esiEligible THEN MathRound(Mul(monthlyGrossPayable, p.esi.employeeRate)) ELSE Zero

PtE(p) == IF p.pt.apply THEN MathRound(OrZero(p.pt.monthlyAmount)) ELSE Zero

\* const taxable = Math.max(0, annualGross - stdDed - allowedExemptions)
TaxableE(monthlyGross, p, exemptions) ==
    LET annualGrossAmt    == Mul(monthlyGross, Int2Num(12))
        stdDed            == OrZero(p.tds.standardDeduction)
        allowedExemptions == IF p.tds.regime = "new" THEN Zero ELSE OrZero(exemptions)
    IN  MathMax(Zero, Sub(Sub(annualGrossAmt, stdDed), allowedExemptions))

\* let taxCore = computeSlabTax(taxable, slabs); the 87A rebate overrides it with 0
TaxCoreE(taxable, p) ==
    LET slabs   == IF p.tds.regime = "new" THEN p.tds.slabsNew ELSE p.tds.slabsOld
        taxCore == computeSlabTaxE(taxable, slabs)
    IN  IF p.tds.regime = "new" /\ Leq(taxable, OrZero(p.tds.rebate87AThreshold))
        THEN Zero
        ELSE taxCore

\* let tds = 0, annualTax = 0; if (p.tds.apply) { ... }
AnnualTaxE(a) ==
    LET p == a.policy
    IN  IF p.tds.apply
        THEN MathRound(Mul(TaxCoreE(TaxableE(a.monthlyGross, p,
                                           a.additionalExemptionsAnnual), p),
                           Add(One, OrZero(p.tds.cessRate))))
        ELSE Zero

TdsE(annualTax, p) == IF p.tds.apply THEN MathRound(Div(annualTax, Int2Num(12))) ELSE Zero

AnnualEarningsE(basicFull, hraFull, specialFull, fixedAllowances) ==
    [ basic      |-> Mul(basicFull, Int2Num(12)),
      hra        |-> Mul(hraFull, Int2Num(12)),
      special    |-> Mul(specialFull, Int2Num(12)),
      conveyance |-> Mul(OrZero(fixedAllowances.conveyance), Int2Num(12)),
      medical    |-> Mul(OrZero(fixedAllowances.medical), Int2Num(12)),
      lunch      |-> Mul(OrZero(fixedAllowances.lunch), Int2Num(12)) ]

AnnualDeductionsE(monthlyGross, basicFull, hraFull, specialFull, fixedFull, tds, p) ==
    LET base == IF p.pf.restrictBaseToCeiling
                THEN MathMin(basicFull, p.pf.wageCeiling) ELSE basicFull
    IN  [ pfEE  |-> Mul(IF p.pf.apply THEN MathRound(Mul(base, p.pf.employeeRate)) ELSE Zero,
                        Int2Num(12)),
          vpfEE |-> Mul(IF p.pf.apply /\ Less(Zero, p.pf.vpfRate)
                        THEN MathRound(Mul(base, p.pf.vpfRate)) ELSE Zero, Int2Num(12)),
          esiEE |-> Mul(IF p.esi.apply /\ Leq(monthlyGross, p.esi.monthlyThreshold)
                        THEN MathRound(Mul(Add(Add(Add(basicFull, hraFull), specialFull),
                                               fixedFull), p.esi.employeeRate))
                        ELSE Zero, Int2Num(12)),
          pt    |-> Mul(IF p.pt.apply THEN MathRound(OrZero(p.pt.monthlyAmount)) ELSE Zero,
                        Int2Num(12)),
          tds   |-> Mul(tds, Int2Num(12)) ]

\* faulty variant (C12): the custom deductions are left out of the total
TotalDeductionsWithoutCustom(pfEE, vpfEE, esiEE, pt, tds, customDeductionsTotal) ==
    Add(Add(Add(Add(pfEE, vpfEE), esiEE), pt), tds)

TotalDeductionsE(pfEE, vpfEE, esiEE, pt, tds, customDeductionsTotal) ==
    Add(Add(Add(Add(Add(pfEE, vpfEE), esiEE), pt), tds), customDeductionsTotal)

\* Object.values(annual.deductions).reduce((a,b)=>a+b,0) + (customDeductionsTotal * 12)
AnnualTotalDeductionsE(d, customDeductionsTotal) ==
    Add(Sum(<<d.pfEE, d.vpfEE, d.esiEE, d.pt, d.tds>>),
        Mul(customDeductionsTotal, Int2Num(12)))

\* faulty variant (C13): the custom earnings are left out of the annual net
AnnualNetWithoutCustom(basicFull, hraFull, specialFull, fixedFull, customEarningsTotal, annualTotalDeductions) ==
    Sub(Mul(Add(Add(Add(basicFull, hraFull), specialFull), fixedFull), Int2Num(12)),
        annualTotalDeductions)

AnnualNetE(basicFull, hraFull, specialFull, fixedFull, customEarningsTotal, annualTotalDeductions) ==
    Sub(Mul(Add(Add(Add(Add(basicFull, hraFull), specialFull), fixedFull),
                customEarningsTotal), Int2Num(12)),
        annualTotalDeductions)

calculatePayrollE(a) ==
    LET p == a.policy
        factor == FactorE(a.paymentDays, a.monthDays)
        basicFull == BasicFullE(a.monthlyGross, p)
        hraFull == HraFullE(basicFull, p)
        fixedFull == FixedFullE(a.fixedAllowances)
        specialFullRaw == SpecialFullRawE(a.monthlyGross, basicFull, hraFull, fixedFull)
        specialFull == SpecialFullE(specialFullRaw)
        fixedTooHigh == FixedTooHighE(specialFullRaw)
        basic == ProratedE(basicFull, factor)
        hra == ProratedE(hraFull, factor)
        special == ProratedE(specialFull, factor)
        conveyance == OrZero(a.fixedAllowances.conveyance)
        medical == OrZero(a.fixedAllowances.medical)
        lunch == OrZero(a.fixedAllowances.lunch)
        customEarningsTotal == CustomEarningsTotal(a.customEarnings)
        monthlyGrossPayable == MonthlyGrossPayableE(basic, hra, special, conveyance, medical,
                                                   lunch, customEarningsTotal)
        pfBase == PfBaseE(basicFull, factor, p)
        pfEE == PfEEE(pfBase, p)
        vpfEE == VpfEEE(pfBase, p)
        esiEligible == EsiEligibleE(a.monthlyGross, p)
        esiEE == EsiEEE(esiEligible, monthlyGrossPayable, p)
        pt == PtE(p)
        annualTax == AnnualTaxE(a)
        tds == TdsE(annualTax, p)
        customDeductionsTotal == CustomDeductionsTotal(a.customDeductions)
        totalDeductions == TotalDeductionsE(pfEE, vpfEE, esiEE, pt, tds, customDeductionsTotal)
        netPay == Sub(monthlyGrossPayable, totalDeductions)
        annualDeductions == AnnualDeductionsE(a.monthlyGross, basicFull, hraFull, specialFull,
                                             fixedFull, tds, p)
        annualTotalDeductions == AnnualTotalDeductionsE(annualDeductions,
                                                       customDeductionsTotal)
        annualNet == AnnualNetE(basicFull, hraFull, specialFull, fixedFull,
                               customEarningsTotal, annualTotalDeductions)
    IN  [ flags  |-> [ negativeNet |-> Less(netPay, Zero), esiEligible |-> esiEligible,
                       fixedTooHigh |-> fixedTooHigh ],
          factor |-> factor,
          monthly |->
            [ earnings |-> [ basic |-> basic, hra |-> hra, special |-> special,
                             conveyance |-> conveyance, medical |-> medical, lunch |-> lunch ],
              earningsFull |-> [ basic |-> basicFull, hra |-> hraFull, special |-> specialFull,
                                 conveyance |-> conveyance, medical |-> medical,
                                 lunch |-> lunch ],
              grossPayable |-> monthlyGrossPayable,
              deductions |-> [ pfEE |-> pfEE, vpfEE |-> vpfEE, esiEE |-> esiEE, pt |-> pt,
                               tds |-> tds ],
              totalDeductions |-> totalDeductions,
              netPay |-> netPay,
              customEarnings |-> a.customEarnings,
              customDeductions |-> a.customDeductions,
              customEarningsTotal |-> customEarningsTotal,
              customDeductionsTotal |-> customDeductionsTotal ],
          annual |->
            [ earnings |-> AnnualEarningsE(basicFull, hraFull, specialFull, a.fixedAllowances),
              gross |-> Mul(a.monthlyGross, Int2Num(12)),
              deductions |-> annualDeductions,
              totalDeductions |-> annualTotalDeductions,
              netPay |-> annualNet,
              taxProjected |-> annualTax ] ]

(***************************************************************************)
(* Bounds of the model and the input values the checks draw from           *)
(***************************************************************************)
\* the largest day count typed into Month Days / Payment Days
MaxDays == 2

\* useState(30) of monthDays and paymentDays; also the fallback of toNum(value, 30)
DefaultDays == 30

\* what the user types into a number input: <<>> (an empty field) or <<x>>
TypedDays == {<<>>} \cup {<<Int2Num(k)>> : k \in (0 - 1) .. MaxDays} \cup {<<Num(3, 2)>>}

AnnualGrossValues == {Int2Num(500000), Int2Num(600000)}
MonthlyGrossValues == {Zero, Int2Num(5000), Int2Num(21000), Int2Num(40000), Int2Num(100000)}

GrossInputs ==
    {[inputMode |-> "annual", annualGross |-> g, grossMonthlyManual |-> Int2Num(40000)] :
        g \in AnnualGrossValues}
    \cup
    {[inputMode |-> "monthly", annualGross |-> Int2Num(480000), grossMonthlyManual |-> g] :
        g \in MonthlyGrossValues}

FixedValues ==
    { [conveyance |-> Zero, medical |-> Zero, lunch |-> Zero],
      [conveyance |-> Int2Num(1600), medical |-> Int2Num(1250), lunch |-> Int2Num(1150)] }

SplitValues == { <<Pct(40), Pct(50)>>, <<Pct(55), Pct(33)>> }

\* the rate fields take toNum(value, 0) / 100 unclamped, so a rate below 0 can be typed
PfValues ==
    { [defaultPolicy.pf EXCEPT !.apply = ap, !.restrictBaseToCeiling = r, !.vpfRate = v] :
        ap \in BOOLEAN, r \in BOOLEAN, v \in {Zero, Pct(5)} }
    \cup
    { [defaultPolicy.pf EXCEPT !.employeeRate = Pct(0 - 5)],
      [defaultPolicy.pf EXCEPT !.vpfRate = Pct(0 - 5)] }

ExemptionValues == {Zero, Int2Num(150000)}

\* a second pair of slab tables (tax from the first rupee) and a second cess rate
otherSlabsNew == << Slab(Int2Num(400000), Pct(10)), Slab(Infinity, Pct(25)) >>
otherSlabsOld == << Slab(Int2Num(200000), Pct(5)), Slab(Int2Num(800000), Pct(15)),
                    Slab(Infinity, Pct(35)) >>
otherCessRate == Pct(10)

\* policies with the Additional Exemptions input: every sub-policy is varied over its
\* values against the default policy, and the four toggles over all combinations
PolicyInputs ==
    { [policy |-> [defaultPolicy EXCEPT !.basicPctOfGross = s[1], !.hraPctOfBasic = s[2]],
       exemptions |-> Zero] : s \in SplitValues }
    \cup
    { [policy |-> [defaultPolicy EXCEPT !.pf = pf], exemptions |-> Zero] : pf \in PfValues }
    \cup
    { [policy |-> [defaultPolicy EXCEPT !.pf.apply = a, !.esi.apply = b, !.pt.apply = c,
                                        !.tds.apply = d],
       exemptions |-> Zero] : a \in BOOLEAN, b \in BOOLEAN, c \in BOOLEAN, d \in BOOLEAN }
    \cup
    { [policy |-> [defaultPolicy EXCEPT !.tds.apply = ap, !.tds.regime = r],
       exemptions |-> x] : ap \in BOOLEAN, r \in {"new", "old"}, x \in ExemptionValues }
    \cup
    { [policy |-> [defaultPolicy EXCEPT !.tds.regime = r, !.tds.slabsNew = otherSlabsNew,
                                        !.tds.slabsOld = otherSlabsOld,
                                        !.tds.cessRate = otherCessRate],
       exemptions |-> x] : r \in {"new", "old"}, x \in ExemptionValues }

\* custom line items {name, amount, id}
CustomItem(name, amount, id) == [name |-> name, amount |-> Int2Num(amount), id |-> id]
CustomInputs ==
    { [earnings |-> <<>>, deductions |-> <<>>],
      [earnings |-> <<CustomItem("Bonus", 500, 1), CustomItem("Shift", 250, 3)>>,
       deductions |-> <<CustomItem("Loan", 300, 2), CustomItem("Canteen", 75, 4)>>] }

\* computeSlabTax alone: the largest finite slab bound
MaxSlabBound == 3

SlabRates == {Zero, Pct(10), Pct(30)}

RECURSIVE Ascending(_)
Ascending(S) ==
    IF S = {} THEN <<>>
    ELSE LET m == CHOOSE x \in S : \A y \in S : x <= y
         IN  <<m>> \o Ascending(S \ {m})

\* the slab tables with strictly ascending finite bounds in 1 .. MaxSlabBound, an unbounded
\* last slab and rates in SlabRates
ValidSlabTables ==
    UNION { { [i \in 1 .. Cardinality(S) + 1 |->
                 Slab(IF i <= Cardinality(S) THEN Int2Num(Ascending(S)[i]) ELSE Infinity,
                      r[i])] :
              r \in [1 .. Cardinality(S) + 1 -> SlabRates] } :
            S \in SUBSET (1 .. MaxSlabBound) }

\* taxable amounts 0, 1/2, 1, ... up to one above the largest finite bound
SlabAmounts == { Num(k, 2) : k \in 0 .. 2 * (MaxSlabBound + 1) }

(***************************************************************************)
(* The calculator components: state, derived monthlyGross, render          *)
(***************************************************************************)
\* toNum(val, fallback) on the text of a number input
toNum(val, fallback) == IF val = <<>> THEN fallback ELSE val[1]

\* toNum(val) on a number held in state: a finite number is itself
toNumState(n) == IF IsFinite(n) THEN n ELSE Zero

\* parseInt(e.target.value || 0): the integer part, 0 for an empty field
parseIntOrZero(val) ==
    IF val = <<>> THEN Zero
    ELSE LET x == val[1]
         IN  IF x.n >= 0 THEN Int2Num(x.n \div x.d) ELSE Int2Num(-((-x.n) \div x.d))

\* Calculator2: const monthlyGross = inputMode === "annual" ? toNum(annualGross) / 12 : ...
MonthlyGross(mode, annual, monthly) ==
    IF mode = "annual" THEN Div(toNumState(annual), Int2Num(12)) ELSE toNumState(monthly)

\* Calculator1: inputMode === "annual" ? (annualGross || 0) / 12 : (grossMonthlyManual || 0)
MonthlyGross1(mode, annual, monthly) ==
    IF mode = "annual" THEN Div(OrZero(annual), Int2Num(12)) ELSE OrZero(monthly)

\* the enhanced calculator
MonthlyGrossE(mode, annual, monthly) ==
    IF mode = "annual" THEN Div(toNumState(annual), Int2Num(12)) ELSE toNumState(monthly)

\* the arguments handed to the engine on a render with mDays and pDays as the day inputs
Args(mDays, pDays) ==
    [ monthlyGross |-> MonthlyGross(inputMode, annualGross, grossMonthlyManual),
      fixedAllowances |-> fixed, policy |-> policy, monthDays |-> mDays,
      paymentDays |-> pDays, additionalExemptionsAnnual |-> additionalExemptionsAnnual ]

Args1(mDays, pDays) ==
    [ monthlyGross |-> MonthlyGross1(inputMode, annualGross, grossMonthlyManual),
      fixedAllowances |-> fixed, policy |-> policy, monthDays |-> mDays,
      paymentDays |-> pDays, additionalExemptionsAnnual |-> additionalExemptionsAnnual ]

ArgsE(mDays, pDays) ==
    [ monthlyGross |-> MonthlyGrossE(inputMode, annualGross, grossMonthlyManual),
      fixedAllowances |-> fixed, policy |-> policy, monthDays |-> mDays,
      paymentDays |-> pDays, additionalExemptionsAnnual |-> additionalExemptionsAnnual,
      customEarnings |-> customEarnings, customDeductions |-> customDeductions ]

\* no computeSlabTax call of its own is in progress
NoCall == <<>>

\* the preset list and EmployeeManager as the calculator mounts
InitManager ==
    /\ employee = IF selectedCalculator = "enhanced" THEN "Pulicharla Gopi Krishna" ELSE ""
    /\ presets = IF selectedCalculator = "enhanced" THEN defaultPresetsE
                 ELSE IF selectedCalculator = "calculator1" THEN defaultPresets1
                 ELSE defaultPresets
    /\ showAddForm = FALSE
    /\ newEmployeeMode = "monthly"
    /\ newEmployee = newEmployeeBlank
    /\ lastCall = NoCall

InitInputs ==
    /\ \E g \in GrossInputs :
          /\ inputMode = g.inputMode
          /\ annualGross = g.annualGross
          /\ grossMonthlyManual = g.grossMonthlyManual
    /\ fixed \in FixedValues
    /\ \E pi \in PolicyInputs :
          /\ policy = pi.policy
          /\ additionalExemptionsAnnual = pi.exemptions
    /\ monthDays = Int2Num(DefaultDays)
    /\ paymentDays = Int2Num(DefaultDays)
    /\ slabCall = NoCall
    /\ slabTax = NoCall
    /\ slabRun = NoCall
    /\ exported = NoCall
    /\ InitManager

\* Calculator2 mounted
Init ==
    /\ selectedCalculator = "calculator2"
    /\ InitInputs
    /\ customEarnings = <<>>
    /\ customDeductions = <<>>
    /\ result = calculatePayroll(Args(monthDays, paymentDays))

\* Calculator1 mounted
Init1 ==
    /\ selectedCalculator = "calculator1"
    /\ InitInputs
    /\ customEarnings = <<>>
    /\ customDeductions = <<>>
    /\ result = usePayrollCalculator(Args1(monthDays, paymentDays))

\* the enhanced calculator mounted
InitE ==
    /\ selectedCalculator = "enhanced"
    /\ InitInputs
    /\ \E c \in CustomInputs :
          /\ customEarnings = c.earnings
          /\ customDeductions = c.deductions
    /\ result = calculatePayrollE(ArgsE(monthDays, paymentDays))

\* Calculator2: onChange of Month Days, and the render it causes
SetMonthDays(v) ==
    /\ monthDays' = MathMax(One, MathRound(toNum(v, Int2Num(DefaultDays))))
    /\ result' = calculatePayroll(Args(monthDays', paymentDays))
    /\ UNCHANGED managerVars
    /\ UNCHANGED <<selectedCalculator, inputMode, annualGross, grossMonthlyManual, fixed,
                   policy, paymentDays, additionalExemptionsAnnual, customEarnings,
                   customDeductions, slabCall, slabTax, slabRun, exported>>

\* Calculator2: onChange of Payment Days, and the render it causes
SetPaymentDays(v) ==
    /\ paymentDays' = MathMax(Zero, MathMin(MathRound(toNum(v, Int2Num(DefaultDays))),
                                            monthDays))
    /\ result' = calculatePayroll(Args(monthDays, paymentDays'))
    /\ UNCHANGED managerVars
    /\ UNCHANGED <<selectedCalculator, inputMode, annualGross, grossMonthlyManual, fixed,
                   policy, monthDays, additionalExemptionsAnnual, customEarnings,
                   customDeductions, slabCall, slabTax, slabRun, exported>>

\* Calculator1: onChange of Month Days, and the render it causes
SetMonthDays1(v) ==
    /\ monthDays' = parseIntOrZero(v)
    /\ result' = usePayrollCalculator(Args1(monthDays', paymentDays))
    /\ UNCHANGED managerVars
    /\ UNCHANGED <<selectedCalculator, inputMode, annualGross, grossMonthlyManual, fixed,
                   policy, paymentDays, additionalExemptionsAnnual, customEarnings,
                   customDeductions, slabCall, slabTax, slabRun, exported>>

\* Calculator1: onChange of Payment Days, and the render it causes
SetPaymentDays1(v) ==
    /\ paymentDays' = parseIntOrZero(v)
    /\ result' = usePayrollCalculator(Args1(monthDays, paymentDays'))
    /\ UNCHANGED managerVars
    /\ UNCHANGED <<selectedCalculator, inputMode, annualGross, grossMonthlyManual, fixed,
                   policy, monthDays, additionalExemptionsAnnual, customEarnings,
                   customDeductions, slabCall, slabTax, slabRun, exported>>

\* enhanced calculator: onChange of Month Days, and the render it causes
SetMonthDaysE(v) ==
    /\ monthDays' = MathMax(One, MathRound(toNum(v, Int2Num(DefaultDays))))
    /\ result' = calculatePayrollE(ArgsE(monthDays', paymentDays))
    /\ UNCHANGED managerVars
    /\ UNCHANGED <<selectedCalculator, inputMode, annualGross, grossMonthlyManual, fixed,
                   policy, paymentDays, additionalExemptionsAnnual, customEarnings,
                   customDeductions, slabCall, slabTax, slabRun, exported>>

\* enhanced calculator: onChange of Payment Days, and the render it causes
SetPaymentDaysE(v) ==
    /\ paymentDays' = MathMax(Zero, MathMin(MathRound(toNum(v, Int2Num(DefaultDays))),
                                            monthDays))
    /\ result' = calculatePayrollE(ArgsE(monthDays, paymentDays'))
    /\ UNCHANGED managerVars
    /\ UNCHANGED <<selectedCalculator, inputMode, annualGross, grossMonthlyManual, fixed,
                   policy, monthDays, additionalExemptionsAnnual, customEarnings,
                   customDeductions, slabCall, slabTax, slabRun, exported>>

Next ==
    \/ \E v \in TypedDays : SetMonthDays(v)
    \/ \E v \in TypedDays : SetPaymentDays(v)

Next1 ==
    \/ \E v \in TypedDays : SetMonthDays1(v)
    \/ \E v \in TypedDays : SetPaymentDays1(v)

NextE ==
    \/ \E v \in TypedDays : SetMonthDaysE(v)
    \/ \E v \in TypedDays : SetPaymentDaysE(v)

\* computeSlabTax of Calculator2 alone, on a valid slab table and amounts a <= b; the
\* calculator stays in its initial state
InitSlab ==
    /\ selectedCalculator = "calculator2"
    /\ inputMode = "annual"
    /\ annualGross = Int2Num(480000)
    /\ grossMonthlyManual = Int2Num(40000)
    /\ fixed = [conveyance |-> Int2Num(1600), medical |-> Int2Num(1250),
                lunch |-> Int2Num(1150)]
    /\ policy = defaultPolicy
    /\ monthDays = Int2Num(DefaultDays)
    /\ paymentDays = Int2Num(DefaultDays)
    /\ additionalExemptionsAnnual = Zero
    /\ customEarnings = <<>>
    /\ customDeductions = <<>>
    /\ result = calculatePayroll(Args(monthDays, paymentDays))
    /\ \E t \in ValidSlabTables, a \in SlabAmounts, b \in SlabAmounts :
          /\ Leq(a, b)
          /\ slabCall = [slabs |-> t, a |-> a, b |-> b]
    /\ slabTax = NoCall
    /\ slabRun = NoCall
    /\ exported = NoCall
    /\ InitManager

ComputeSlabTax ==
    /\ slabTax = NoCall
    /\ slabTax' = [a |-> computeSlabTax(slabCall.a, slabCall.slabs),
                   b |-> computeSlabTax(slabCall.b, slabCall.slabs)]
    /\ UNCHANGED managerVars
    /\ UNCHANGED <<selectedCalculator, inputMode, annualGross, grossMonthlyManual, fixed,
                   policy, monthDays, paymentDays, additionalExemptionsAnnual,
                   customEarnings, customDeductions, result, slabCall, slabRun,
                   exported>>

NextSlab == ComputeSlabTax

\* what the user types into Additional Exemptions (Annual)
TypedExemptions ==
    {<<>>, <<Int2Num(0 - 1)>>, <<Num(1500004, 10)>>} \cup {<<x>> : x \in ExemptionValues}

\* Calculator2 mounted, Additional Exemptions still at its useState(0)
InitExemptions ==
    /\ Init
    /\ additionalExemptionsAnnual = Zero

\* Calculator2: onChange of Additional Exemptions (Annual), and the render it causes
SetAdditionalExemptionsAnnual(v) ==
    /\ additionalExemptionsAnnual' = MathMax(Zero, MathRound(toNum(v, Zero)))
    /\ result' = calculatePayroll([Args(monthDays, paymentDays) EXCEPT
                                      !.additionalExemptionsAnnual = additionalExemptionsAnnual'])
    /\ UNCHANGED managerVars
    /\ UNCHANGED <<selectedCalculator, inputMode, annualGross, grossMonthlyManual, fixed,
                   policy, monthDays, paymentDays, customEarnings, customDeductions,
                   slabCall, slabTax, slabRun, exported>>

NextExemptions ==
    \/ \E v \in TypedExemptions : SetAdditionalExemptionsAnnual(v)
    \/ \E v \in TypedDays : SetPaymentDays(v)

\* computeSlabTax of Calculator2 step by step, on any finite slab table: the bounds need not
\* ascend, the last slab need not be unbounded and the table may be empty
MaxSlabs == 2

AnySlabBounds == {Int2Num(k) : k \in 1 .. MaxSlabBound} \cup {Infinity}

AnySlabTables ==
    UNION { [1 .. n -> {Slab(u, r) : u \in AnySlabBounds, r \in {Zero, Pct(10)}}] :
            n \in 0 .. MaxSlabs }

LoopAmounts == {Int2Num(k) : k \in 0 .. (MaxSlabBound + 1)}

\* let tax = 0; let last = 0; and the for-of loop about to take the first slab
slabRunStart == [pc |-> "loop", i |-> 1, tax |-> Zero, last |-> Zero, iterations |-> 0]

InitSlabLoop ==
    /\ selectedCalculator = "calculator2"
    /\ inputMode = "annual"
    /\ annualGross = Int2Num(480000)
    /\ grossMonthlyManual = Int2Num(40000)
    /\ fixed = [conveyance |-> Int2Num(1600), medical |-> Int2Num(1250),
                lunch |-> Int2Num(1150)]
    /\ policy = defaultPolicy
    /\ monthDays = Int2Num(DefaultDays)
    /\ paymentDays = Int2Num(DefaultDays)
    /\ additionalExemptionsAnnual = Zero
    /\ customEarnings = <<>>
    /\ customDeductions = <<>>
    /\ result = calculatePayroll(Args(monthDays, paymentDays))
    /\ \E t \in AnySlabTables, a \in LoopAmounts :
          slabCall = [slabs |-> t, a |-> a, b |-> a]
    /\ slabTax = NoCall
    /\ slabRun = slabRunStart
    /\ exported = NoCall
    /\ InitManager

\* faulty variant (C15): a slab that adds nothing is taken again instead of being passed
slabIterationRetrying(run, call) ==
    LET upto == call.slabs[run.i].upto
        rate == call.slabs[run.i].rate
        span == Sub(MathMin(call.a, upto), run.last)
    IN  [ pc   |-> IF Leq(call.a, upto) THEN "return" ELSE "loop",
          i    |-> IF Less(Zero, span) THEN run.i + 1 ELSE run.i,
          tax  |-> IF Less(Zero, span) THEN Add(run.tax, Mul(span, rate)) ELSE run.tax,
          last |-> upto,
          iterations |-> run.iterations + 1 ]

\* one pass through the body of the for-of loop, on slab run.i
slabIteration(run, call) ==
    LET upto == call.slabs[run.i].upto
        rate == call.slabs[run.i].rate
        span == Sub(MathMin(call.a, upto), run.last)
    IN  [ pc   |-> IF Leq(call.a, upto) THEN "return" ELSE "loop",
          i    |-> run.i + 1,
          tax  |-> IF Less(Zero, span) THEN Add(run.tax, Mul(span, rate)) ELSE run.tax,
          last |-> upto,
          iterations |-> run.iterations + 1 ]

SlabIteration ==
    /\ slabRun.pc = "loop"
    /\ slabRun.i <= Len(slabCall.slabs)
    /\ slabRun' = slabIteration(slabRun, slabCall)
    /\ UNCHANGED managerVars
    /\ UNCHANGED <<selectedCalculator, inputMode, annualGross, grossMonthlyManual, fixed,
                   policy, monthDays, paymentDays, additionalExemptionsAnnual,
                   customEarnings, customDeductions, result, slabCall, slabTax, exported>>

\* return tax, after the break or after the last slab
SlabReturn ==
    /\ \/ slabRun.pc = "return"
       \/ slabRun.pc = "loop" /\ slabRun.i > Len(slabCall.slabs)
    /\ slabTax' = [a |-> slabRun.tax, b |-> slabRun.tax]
    /\ slabRun' = [slabRun EXCEPT !.pc = "done"]
    /\ UNCHANGED managerVars
    /\ UNCHANGED <<selectedCalculator, inputMode, annualGross, grossMonthlyManual, fixed,
                   policy, monthDays, paymentDays, additionalExemptionsAnnual,
                   customEarnings, customDeductions, result, slabCall, exported>>

NextSlabLoop ==
    \/ SlabIteration
    \/ SlabReturn

\* exportERPNextAssignment: the payload handed to downloadJSON.  Its employee and from_date
\* fields (the name typed, today's date) are outside the state modelled here.
Component(name, amount) == [salary_component |-> name, amount |-> amount]

RECURSIVE customComponents(_, _)
\* customEarnings.map(ce => ({ salary_component: ce.name, amount: ce.amount }))
customComponents(list, i) ==
    IF i > Len(list) THEN <<>>
    ELSE <<Component(list[i].name, list[i].amount)>> \o customComponents(list, i + 1)

\* Calculator1
payload1(r, f) ==
    [ salary_structure |-> "Monthly-Standard-2025",
      earnings |-> << Component("Basic", r.monthly.earningsFull.basic),
                      Component("HRA", r.monthly.earningsFull.hra),
                      Component("Special Allowance", r.monthly.earningsFull.special),
                      Component("Conveyance Allowance", f.conveyance),
                      Component("Medical Allowance", f.medical),
                      Component("Lunch Allowance", f.lunch) >>,
      deductions |-> << Component("Income Tax (TDS)", Zero) >> ]

\* faulty variant (C18): the amounts of the month shown, prorated, are exported
payloadOfProratedMonth(r, f, earnings, deductions) ==
    [ salary_structure |-> "Monthly-Standard-2025",
      earnings |-> << Component("Basic", r.monthly.earnings.basic),
                      Component("HRA", r.monthly.earnings.hra),
                      Component("Special Allowance", r.monthly.earnings.special),
                      Component("Conveyance Allowance", f.conveyance),
                      Component("Medical Allowance", f.medical),
                      Component("Lunch Allowance", f.lunch) >>
                   \o customComponents(earnings, 1),
      deductions |-> << Component("Income Tax (TDS)", r.monthly.deductions.tds) >>
                     \o customComponents(deductions, 1) ]

\* the enhanced calculator
payloadE(r, f, earnings, deductions) ==
    [ salary_structure |-> "Monthly-Standard-2025",
      earnings |-> << Component("Basic", r.monthly.earningsFull.basic),
                      Component("HRA", r.monthly.earningsFull.hra),
                      Component("Special Allowance", r.monthly.earningsFull.special),
                      Component("Conveyance Allowance", f.conveyance),
                      Component("Medical Allowance", f.medical),
                      Component("Lunch Allowance", f.lunch) >>
                   \o customComponents(earnings, 1),
      deductions |-> << Component("Income Tax (TDS)", Zero) >>
                     \o customComponents(deductions, 1) ]

\* Calculator1 or the enhanced calculator mounted, under the default deductions
InitExport ==
    /\ \/ Init1
       \/ InitE
    /\ \E sv \in SplitValues :
          policy = [defaultPolicy EXCEPT !.basicPctOfGross = sv[1], !.hraPctOfBasic = sv[2]]

\* Calculator1: click on the ERPNext export
ExportERPNextAssignment1 ==
    /\ selectedCalculator = "calculator1"
    /\ exported' = payload1(result, fixed)
    /\ UNCHANGED managerVars
    /\ UNCHANGED <<selectedCalculator, inputMode, annualGross, grossMonthlyManual, fixed,
                   policy, monthDays, paymentDays, additionalExemptionsAnnual,
                   customEarnings, customDeductions, result, slabCall, slabTax, slabRun>>

\* enhanced calculator: click on the ERPNext export
ExportERPNextAssignmentE ==
    /\ selectedCalculator = "enhanced"
    /\ exported' = payloadE(result, fixed, customEarnings, customDeductions)
    /\ UNCHANGED managerVars
    /\ UNCHANGED <<selectedCalculator, inputMode, annualGross, grossMonthlyManual, fixed,
                   policy, monthDays, paymentDays, additionalExemptionsAnnual,
                   customEarnings, customDeductions, result, slabCall, slabTax, slabRun>>

NextExport ==
    \/ selectedCalculator = "calculator1" /\ \E v \in TypedDays : SetMonthDays1(v)
    \/ selectedCalculator = "calculator1" /\ \E v \in TypedDays : SetPaymentDays1(v)
    \/ selectedCalculator = "enhanced" /\ \E v \in TypedDays : SetMonthDaysE(v)
    \/ selectedCalculator = "enhanced" /\ \E v \in TypedDays : SetPaymentDaysE(v)
    \/ ExportERPNextAssignment1
    \/ ExportERPNextAssignmentE

\* rebate thresholds handed in with the policy: none, the default, and the two around the
\* taxable income of 40000 a month (12 * 40000 - 50000 = 430000)
RebateThresholds == {Zero, Int2Num(429999), Int2Num(430000), Int2Num(700000)}

\* Calculator2 mounted with a policy whose rebate threshold and regime are drawn
InitRebate ==
    /\ selectedCalculator = "calculator2"
    /\ \E g \in GrossInputs :
          /\ inputMode = g.inputMode
          /\ annualGross = g.annualGross
          /\ grossMonthlyManual = g.grossMonthlyManual
    /\ fixed = [conveyance |-> Int2Num(1600), medical |-> Int2Num(1250),
                lunch |-> Int2Num(1150)]
    /\ \E ap \in BOOLEAN, r \in {"new", "old"}, t \in RebateThresholds :
          policy = [defaultPolicy EXCEPT !.tds.apply = ap, !.tds.regime = r,
                                         !.tds.rebate87AThreshold = t]
    /\ additionalExemptionsAnnual \in ExemptionValues
    /\ monthDays = Int2Num(DefaultDays)
    /\ paymentDays = Int2Num(DefaultDays)
    /\ customEarnings = <<>>
    /\ customDeductions = <<>>
    /\ result = calculatePayroll(Args(monthDays, paymentDays))
    /\ slabCall = NoCall
    /\ slabTax = NoCall
    /\ slabRun = NoCall
    /\ exported = NoCall
    /\ InitManager

\* Calculator2: onValueChange of the Tax Regime select, and the render it causes
SetRegime(v) ==
    /\ policy' = [policy EXCEPT !.tds.regime = v]
    /\ result' = calculatePayroll([Args(monthDays, paymentDays) EXCEPT !.policy = policy'])
    /\ UNCHANGED managerVars
    /\ UNCHANGED <<selectedCalculator, inputMode, annualGross, grossMonthlyManual, fixed,
                   monthDays, paymentDays, additionalExemptionsAnnual, customEarnings,
                   customDeductions, slabCall, slabTax, slabRun, exported>>

NextRebate ==
    \/ \E v \in {"new", "old"} : SetRegime(v)
    \/ \E v \in TypedDays : SetPaymentDays(v)

(***************************************************************************)
(* The preset list: loadPreset of the calculator, and EmployeeManager      *)
(***************************************************************************)
\* what the calculator itself holds, the preset list apart
calculatorVars ==
    <<selectedCalculator, inputMode, annualGross, grossMonthlyManual, fixed, policy,
      monthDays, paymentDays, additionalExemptionsAnnual, customEarnings,
      customDeductions, result, slabCall, slabTax, slabRun, exported, employee>>

\* the most presets the list is let grow to
MaxPresets == 4

\* names typed into the add form: a blank, a new one, one of a default preset
TypedNames == {" ", "Asha", "Arun Saathappan"}

\* !name.trim() on the names typed
IsBlank(name) == name \in {"", " "}

\* names handed to loadPreset
LoadNames == {"Snigdha Mohapatra", "Arun Saathappan", "Asha"}

\* names of the preset rows whose bin is clicked
RemoveNames == {"Arun Saathappan", "Asha"}

\* presets.find((x) => x.name === name): the index of the first preset of that name, 0 if
\* there is none
find(list, name) ==
    LET found == {i \in 1 .. Len(list) : list[i].name = name}
    IN  IF found = {} THEN 0 ELSE CHOOSE i \in found : \A j \in found : i <= j

\* faulty variant (C23): the input mode is left as it is
LoadPresetKeepingMode(name) ==
    LET i == find(presets, name)
    IN  /\ lastCall' = [op |-> "loadPreset", name |-> name]
        /\ IF i = 0
           THEN UNCHANGED <<employee, inputMode, grossMonthlyManual, fixed, result>>
           ELSE /\ employee' = name
                /\ inputMode' = inputMode
                /\ grossMonthlyManual' = NumOf(presets[i].gross)
                /\ fixed' = [conveyance |-> NumOf(presets[i].fixed.conveyance),
                             medical |-> NumOf(presets[i].fixed.medical),
                             lunch |-> NumOf(presets[i].fixed.lunch)]
                /\ result' = calculatePayroll(
                      [monthlyGross |-> MonthlyGross(inputMode', annualGross,
                                                     grossMonthlyManual'),
                       fixedAllowances |-> fixed', policy |-> policy,
                       monthDays |-> monthDays, paymentDays |-> paymentDays,
                       additionalExemptionsAnnual |-> additionalExemptionsAnnual])
        /\ UNCHANGED <<selectedCalculator, annualGross, policy, monthDays, paymentDays,
                       additionalExemptionsAnnual, customEarnings, customDeductions,
                       slabCall, slabTax, slabRun, exported, presets, showAddForm,
                       newEmployeeMode, newEmployee>>

\* Calculator2: loadPreset(name), and the render it causes
LoadPreset(name) ==
    LET i == find(presets, name)
    IN  /\ lastCall' = [op |-> "loadPreset", name |-> name]
        /\ IF i = 0
           THEN UNCHANGED <<employee, inputMode, grossMonthlyManual, fixed, result>>
           ELSE /\ employee' = name
                /\ inputMode' = "monthly"
                /\ grossMonthlyManual' = NumOf(presets[i].gross)
                /\ fixed' = [conveyance |-> NumOf(presets[i].fixed.conveyance),
                             medical |-> NumOf(presets[i].fixed.medical),
                             lunch |-> NumOf(presets[i].fixed.lunch)]
                /\ result' = calculatePayroll(
                      [monthlyGross |-> MonthlyGross(inputMode', annualGross,
                                                     grossMonthlyManual'),
                       fixedAllowances |-> fixed', policy |-> policy,
                       monthDays |-> monthDays, paymentDays |-> paymentDays,
                       additionalExemptionsAnnual |-> additionalExemptionsAnnual])
        /\ UNCHANGED <<selectedCalculator, annualGross, policy, monthDays, paymentDays,
                       additionalExemptionsAnnual, customEarnings, customDeductions,
                       slabCall, slabTax, slabRun, exported, presets, showAddForm,
                       newEmployeeMode, newEmployee>>

\* EmployeeManager: click on Add, setShowAddForm(!showAddForm)
ToggleAddForm ==
    /\ showAddForm' = ~showAddForm
    /\ lastCall' = [op |-> "setShowAddForm"]
    /\ UNCHANGED calculatorVars
    /\ UNCHANGED <<presets, newEmployeeMode, newEmployee>>

\* EmployeeManager: onChange of Employee Name
SetNewEmployeeName(v) ==
    /\ showAddForm
    /\ newEmployee' = [newEmployee EXCEPT !.name = v]
    /\ lastCall' = [op |-> "setNewEmployee"]
    /\ UNCHANGED calculatorVars
    /\ UNCHANGED <<presets, showAddForm, newEmployeeMode>>

\* EmployeeManager: onValueChange of Salary Input Mode
SetNewEmployeeMode(v) ==
    /\ showAddForm
    /\ newEmployeeMode' = v
    /\ lastCall' = [op |-> "setInputMode"]
    /\ UNCHANGED calculatorVars
    /\ UNCHANGED <<presets, showAddForm, newEmployee>>

\* EmployeeManager: handleMonthlyChange(value), the Monthly Gross field being shown
handleMonthlyChange(value) ==
    /\ showAddForm
    /\ newEmployeeMode = "monthly"
    /\ LET monthly == parseFloatOrZero(value)
       IN  newEmployee' = [newEmployee EXCEPT !.monthlyGross = monthly,
                                              !.annualGross = Times12(monthly)]
    /\ lastCall' = [op |-> "handleMonthlyChange"]
    /\ UNCHANGED calculatorVars
    /\ UNCHANGED <<presets, showAddForm, newEmployeeMode>>

\* EmployeeManager: handleAnnualChange(value), the Annual Gross field being shown
handleAnnualChange(value) ==
    /\ showAddForm
    /\ newEmployeeMode = "annual"
    /\ LET annual == parseFloatOrZero(value)
       IN  newEmployee' = [newEmployee EXCEPT !.annualGross = annual,
                                              !.monthlyGross = Over12(annual)]
    /\ lastCall' = [op |-> "handleAnnualChange"]
    /\ UNCHANGED calculatorVars
    /\ UNCHANGED <<presets, showAddForm, newEmployeeMode>>

\* faulty variant (C30): the gross is the amount of the field shown, the annual one
\* not divided by 12
grossOfShownField(mode, form) ==
    IF mode = "monthly" THEN form.monthlyGross ELSE form.annualGross

\* const grossAmount = inputMode === 'monthly' ? parseFloat(newEmployee.monthlyGross) || 0
\*                                             : parseFloat(newEmployee.annualGross) / 12 || 0
grossAmount(mode, form) ==
    IF mode = "monthly" THEN form.monthlyGross ELSE Over12(form.annualGross)

\* the preset list addEmployee hands to setPresets, the list as it is for a blank name
addedPresets(list, mode, form) ==
    IF IsBlank(form.name) THEN list
    ELSE Append(list, [name |-> form.name, gross |-> grossAmount(mode, form),
                       fixed |-> [conveyance |-> form.conveyance, medical |-> form.medical,
                                  lunch |-> form.lunch]])

\* EmployeeManager: addEmployee(), click on Add Employee
addEmployee ==
    /\ showAddForm
    /\ Len(presets) < MaxPresets
    /\ lastCall' = [op |-> "addEmployee"]
    /\ presets' = addedPresets(presets, newEmployeeMode, newEmployee)
    /\ IF IsBlank(newEmployee.name)
       THEN UNCHANGED <<newEmployee, showAddForm>>
       ELSE /\ newEmployee' = newEmployeeBlank
            /\ showAddForm' = FALSE
    /\ UNCHANGED calculatorVars
    /\ UNCHANGED newEmployeeMode

\* faulty variant (C24): presets.filter((p) => p.name !== name), whatever was answered
removedPresetsUnasked(list, name, confirmed) ==
    SelectSeq(list, LAMBDA p : p.name # name)

\* the preset list after removeEmployee(name) with window.confirm answered
removedPresets(list, name, confirmed) ==
    IF confirmed THEN SelectSeq(list, LAMBDA p : p.name # name) ELSE list

\* EmployeeManager: removeEmployee(name), the bin of a preset row
removeEmployee(name, confirmed) ==
    /\ \E i \in 1 .. Len(presets) : presets[i].name = name
    /\ lastCall' = [op |-> "removeEmployee", name |-> name, confirmed |-> confirmed]
    /\ presets' = removedPresets(presets, name, confirmed)
    /\ UNCHANGED calculatorVars
    /\ UNCHANGED <<showAddForm, newEmployeeMode, newEmployee>>

\* Calculator2 mounted under the default policy, with EmployeeManager below it
InitPresets ==
    /\ Init
    /\ \/ inputMode = "annual" /\ annualGross = Int2Num(600000)
       \/ inputMode = "monthly" /\ grossMonthlyManual = Int2Num(5000)
    /\ policy = defaultPolicy
    /\ additionalExemptionsAnnual = Zero
    /\ fixed = [conveyance |-> Zero, medical |-> Zero, lunch |-> Zero]

NextPresets ==
    \/ \E name \in LoadNames : LoadPreset(name)
    \/ ToggleAddForm
    \/ \E v \in TypedNames : SetNewEmployeeName(v)
    \/ addEmployee
    \/ \E name \in RemoveNames, confirmed \in BOOLEAN : removeEmployee(name, confirmed)

\* basic and HRA fractions for the proration checks: the two of SplitValues and the
\* ends of [0, 1]
ProrationSplits == SplitValues \cup { <<Zero, Zero>>, <<Zero, One>>, <<One, One>> }

\* Calculator2 or the enhanced calculator mounted, with a gross >= 0 and a split drawn
InitProration ==
    /\ selectedCalculator \in {"calculator2", "enhanced"}
    /\ \E g \in GrossInputs :
          /\ inputMode = g.inputMode
          /\ annualGross = g.annualGross
          /\ grossMonthlyManual = g.grossMonthlyManual
    /\ fixed \in FixedValues
    /\ \E s \in ProrationSplits :
          policy = [defaultPolicy EXCEPT !.basicPctOfGross = s[1], !.hraPctOfBasic = s[2]]
    /\ additionalExemptionsAnnual = Zero
    /\ monthDays = Int2Num(DefaultDays)
    /\ paymentDays = Int2Num(DefaultDays)
    /\ \E c \in CustomInputs :
          /\ selectedCalculator = "calculator2" => c.earnings = <<>>
          /\ customEarnings = c.earnings
          /\ customDeductions = c.deductions
    /\ result = IF selectedCalculator = "enhanced"
                THEN calculatePayrollE(ArgsE(monthDays, paymentDays))
                ELSE calculatePayroll(Args(monthDays, paymentDays))
    /\ slabCall = NoCall
    /\ slabTax = NoCall
    /\ slabRun = NoCall
    /\ exported = NoCall
    /\ InitManager

\* the day inputs of the calculator that is mounted
NextProration ==
    \/ \E v \in TypedDays : selectedCalculator = "calculator2" /\ SetMonthDays(v)
    \/ \E v \in TypedDays : selectedCalculator = "calculator2" /\ SetPaymentDays(v)
    \/ \E v \in TypedDays : selectedCalculator = "enhanced" /\ SetMonthDaysE(v)
    \/ \E v \in TypedDays : selectedCalculator = "enhanced" /\ SetPaymentDaysE(v)

\* exemptions typed in steps of 20: under the old regime at 40000 a month each step lowers
\* the annual tax of 9360 by 1.04, so the rounded tax passes every remainder modulo 12
TdsExemptions == {<<Int2Num(20 * k)>> : k \in 0 .. 12}

\* Calculator2 mounted with the default policy, TDS on or off, in either regime
InitTds ==
    /\ selectedCalculator = "calculator2"
    /\ \E g \in GrossInputs :
          /\ inputMode = g.inputMode
          /\ annualGross = g.annualGross
          /\ grossMonthlyManual = g.grossMonthlyManual
    /\ fixed = [conveyance |-> Int2Num(1600), medical |-> Int2Num(1250),
                lunch |-> Int2Num(1150)]
    /\ \E ap \in BOOLEAN, r \in {"new", "old"} :
          policy = [defaultPolicy EXCEPT !.tds.apply = ap, !.tds.regime = r]
    /\ additionalExemptionsAnnual = Zero
    /\ monthDays = Int2Num(DefaultDays)
    /\ paymentDays = Int2Num(DefaultDays)
    /\ customEarnings = <<>>
    /\ customDeductions = <<>>
    /\ result = calculatePayroll(Args(monthDays, paymentDays))
    /\ slabCall = NoCall
    /\ slabTax = NoCall
    /\ slabRun = NoCall
    /\ exported = NoCall
    /\ InitManager

NextTds ==
    \/ \E v \in TdsExemptions : SetAdditionalExemptionsAnnual(v)
    \/ \E v \in {"new", "old"} : SetRegime(v)
    \/ \E v \in TypedDays : SetPaymentDays(v)

\* any of the three calculators mounted, the enhanced one without custom line items
InitEngines ==
    /\ \/ Init
       \/ Init1
       \/ InitE
    /\ customEarnings = <<>>
    /\ customDeductions = <<>>

\* the day inputs of the calculator that is mounted
NextEngines ==
    \/ \E v \in TypedDays : selectedCalculator = "calculator2" /\ SetMonthDays(v)
    \/ \E v \in TypedDays : selectedCalculator = "calculator2" /\ SetPaymentDays(v)
    \/ \E v \in TypedDays : selectedCalculator = "calculator1" /\ SetMonthDays1(v)
    \/ \E v \in TypedDays : selectedCalculator = "calculator1" /\ SetPaymentDays1(v)
    \/ \E v \in TypedDays : selectedCalculator = "enhanced" /\ SetMonthDaysE(v)
    \/ \E v \in TypedDays : selectedCalculator = "enhanced" /\ SetPaymentDaysE(v)

\* amounts typed into Monthly Gross: nothing, 25000, 10922.7
TypedMonthly == { <<>>, <<25000, 0>>, <<109227, 1>> }

\* amounts typed into Annual Gross: nothing, 500000, 500000.05
TypedAnnual == { <<>>, <<500000, 0>>, <<50000005, 2>> }

\* the add form of EmployeeManager under Calculator2: name, mode, the two gross fields,
\* Add Employee
NextAddForm ==
    \/ ToggleAddForm
    \/ SetNewEmployeeName("Asha")
    \/ \E v \in {"monthly", "annual"} : SetNewEmployeeMode(v)
    \/ \E v \in TypedMonthly : handleMonthlyChange(v)
    \/ \E v \in TypedAnnual : handleAnnualChange(v)
    \/ addEmployee

Spec == Init /\ [][Next]_vars
Spec1 == Init1 /\ [][Next1]_vars
SpecE == InitE /\ [][NextE]_vars
SpecSlab == InitSlab /\ [][NextSlab]_vars
SpecExemptions == InitExemptions /\ [][NextExemptions]_vars
SpecExport == InitExport /\ [][NextExport]_vars
SpecRebate == InitRebate /\ [][NextRebate]_vars
SpecPresets == InitPresets /\ [][NextPresets]_vars
SpecProration == InitProration /\ [][NextProration]_vars
SpecTds == InitTds /\ [][NextTds]_vars
SpecEngines == InitEngines /\ [][NextEngines]_vars
SpecAddForm == InitPresets /\ [][NextAddForm]_vars
SpecSlabLoop == InitSlabLoop /\ [][NextSlabLoop]_vars /\ WF_vars(NextSlabLoop)

(***************************************************************************)
(* Views of the state used by the properties                               *)
(***************************************************************************)
\* the monthly gross Calculator2 / Calculator1 / the enhanced calculator hand to the engine
monthlyGrossNow == MonthlyGross(inputMode, annualGross, grossMonthlyManual)
monthlyGrossNow1 == MonthlyGross1(inputMode, annualGross, grossMonthlyManual)
monthlyGrossNowE == MonthlyGrossE(inputMode, annualGross, grossMonthlyManual)

full == result.monthly.earningsFull
earned == result.monthly.earnings
deducted == result.monthly.deductions

\* Math.round(conveyance + medical + lunch) of the fixed allowances in the state
fixedFullNow == MathRound(Add(Add(fixed.conveyance, fixed.medical), fixed.lunch))

\* basicFull + hraFull + specialFull + fixedFull of the result
fullSum == Add(Add(Add(full.basic, full.hra), full.special), fixedFullNow)

\* specialRaw = monthlyGross - (basicFull + hraFull + fixedFull), Calculator2
specialRawNow == Sub(monthlyGrossNow, Add(Add(full.basic, full.hra), fixedFullNow))

(***************************************************************************)
(* C1  split reconstructs the gross                                        *)
(***************************************************************************)
\* C1 (as stated): whenever specialRaw >= 0, basicFull + hraFull + specialFull + fixedFull
\* equals monthlyGross, for every monthlyGross >= 0 including one derived as annualGross/12.
C1_SplitReconstructsGross ==
    Leq(Zero, specialRawNow) => fullSum = monthlyGrossNow

\* C1 (amended): whenever specialRaw >= 0, basicFull + hraFull + specialFull + fixedFull
\* equals Math.round(monthlyGross), which is monthlyGross itself when monthlyGross is a whole
\* number; gross 40000 with basic 40%, HRA 50% and fixed 1600/1250/1150 splits into
\* 16000 + 8000 + 12000 + 4000.
C1_SplitReconstructsRoundedGross ==
    /\ Leq(Zero, specialRawNow) =>
          /\ fullSum = MathRound(monthlyGrossNow)
          /\ IsInteger(monthlyGrossNow) => fullSum = monthlyGrossNow
    /\ ( /\ monthlyGrossNow = Int2Num(40000)
         /\ policy.basicPctOfGross = Pct(40)
         /\ policy.hraPctOfBasic = Pct(50)
         /\ fixed = [conveyance |-> Int2Num(1600), medical |-> Int2Num(1250),
                     lunch |-> Int2Num(1150)] )
       => /\ full.basic = Int2Num(16000)
          /\ full.hra = Int2Num(8000)
          /\ full.special = Int2Num(12000)
          /\ fixedFullNow = Int2Num(4000)

\* a monthly gross of 500000/12 with room for Special, split by a render after a day edit
C1_Witness ==
    /\ inputMode = "annual"
    /\ annualGross = Int2Num(500000)
    /\ ~IsInteger(monthlyGrossNow)
    /\ Less(Zero, specialRawNow)
    /\ fixedFullNow = Int2Num(4000)
    /\ paymentDays = One
    /\ fullSum = Int2Num(41667)

(***************************************************************************)
(* C2  fixedTooHigh and the clamp of Special Allowance                     *)
(***************************************************************************)
\* C2: fixedTooHigh is true exactly when basicFull + hraFull + fixedFull > monthlyGross, and
\* then specialFull = 0; specialFull is never negative.
C2_FixedTooHighClamp ==
    /\ result.flags.fixedTooHigh
         <=> Less(monthlyGrossNow, Add(Add(full.basic, full.hra), fixedFullNow))
    /\ result.flags.fixedTooHigh => full.special = Zero
    /\ Leq(Zero, full.special)

\* fixed allowances of 4000 against a gross of 5000: 2000 + 1000 + 4000 > 5000
C2_Witness ==
    /\ monthlyGrossNow = Int2Num(5000)
    /\ fixedFullNow = Int2Num(4000)
    /\ full.basic = Int2Num(2000)
    /\ result.flags.fixedTooHigh
    /\ full.special = Zero
    /\ monthDays = One

(***************************************************************************)
(* C3  full attendance                                                     *)
(***************************************************************************)
\* C3: for monthDays >= 1, paymentDays = monthDays gives factor exactly 1 and prorated
\* basic, hra and special equal to basicFull, hraFull and specialFull.
C3_FullAttendance ==
    (Leq(One, monthDays) /\ paymentDays = monthDays) =>
        /\ result.factor = One
        /\ earned.basic = full.basic
        /\ earned.hra = full.hra
        /\ earned.special = full.special

\* a two-day month paid in full, with a Basic that is not 0
C3_Witness ==
    /\ monthDays = Int2Num(2)
    /\ paymentDays = Int2Num(2)
    /\ result.factor = One
    /\ Less(Zero, earned.basic)
    /\ earned.basic = full.basic

(***************************************************************************)
(* C4  the proration factor of Calculator1                                 *)
(***************************************************************************)
\* paymentDays / max(1, monthDays) clamped to [0, 1], computed on the integers
clampedRatio(pDays, mDays) ==
    LET m == IF mDays.n >= 1 THEN mDays.n ELSE 1
    IN  IF pDays.n <= 0 THEN Zero
        ELSE IF pDays.n >= m THEN One
        ELSE Num(pDays.n, m)

\* C4: for all integer paymentDays and monthDays (paymentDays > monthDays, paymentDays < 0,
\* monthDays <= 0 included) the factor is clamp(paymentDays / max(1, monthDays), 0, 1), a
\* finite number in [0, 1]: no division by zero occurs.
C4_FactorClamped ==
    /\ IsInteger(paymentDays) /\ IsInteger(monthDays)
    /\ result.factor = clampedRatio(paymentDays, monthDays)
    /\ IsFinite(result.factor)
    /\ Leq(Zero, result.factor) /\ Leq(result.factor, One)

\* Month Days 0 (an emptied field) with 2 payment days: the divisor is max(1, 0) = 1
C4_Witness ==
    /\ selectedCalculator = "calculator1"
    /\ monthDays = Zero
    /\ paymentDays = Int2Num(2)
    /\ result.factor = One

(***************************************************************************)
(* C5  fixed allowances and custom line items are never prorated           *)
(***************************************************************************)
RECURSIVE amountsFrom(_, _)
amountsFrom(list, i) ==
    IF i > Len(list) THEN Zero ELSE Add(list[i].amount, amountsFrom(list, i + 1))

\* the amounts of a list of custom line items added up
amountsTotal(list) == amountsFrom(list, 1)

\* C5: a change of paymentDays or monthDays (all other inputs held fixed) never changes
\* monthly.earnings.conveyance, medical, lunch, customEarningsTotal or customDeductionsTotal;
\* the fixed allowances and the custom items enter grossPayable and totalDeductions at their
\* full amounts for every attendance factor, factor 0 included.
C5_FixedAndCustomNotProrated ==
    [][ /\ result'.monthly.earnings.conveyance = result.monthly.earnings.conveyance
        /\ result'.monthly.earnings.medical = result.monthly.earnings.medical
        /\ result'.monthly.earnings.lunch = result.monthly.earnings.lunch
        /\ result'.monthly.customEarningsTotal = result.monthly.customEarningsTotal
        /\ result'.monthly.customDeductionsTotal = result.monthly.customDeductionsTotal
        /\ result'.monthly.earnings.conveyance = fixed.conveyance
        /\ result'.monthly.earnings.medical = fixed.medical
        /\ result'.monthly.earnings.lunch = fixed.lunch
        /\ result'.monthly.customEarningsTotal = amountsTotal(customEarnings)
        /\ result'.monthly.customDeductionsTotal = amountsTotal(customDeductions)
        /\ result'.monthly.grossPayable =
              Add(Add(Add(result'.monthly.earnings.basic, result'.monthly.earnings.hra),
                      result'.monthly.earnings.special),
                  Add(Add(Add(fixed.conveyance, fixed.medical), fixed.lunch),
                      amountsTotal(customEarnings)))
        /\ result'.monthly.totalDeductions =
              Add(Add(Add(Add(Add(result'.monthly.deductions.pfEE,
                                  result'.monthly.deductions.vpfEE),
                              result'.monthly.deductions.esiEE),
                          result'.monthly.deductions.pt),
                      result'.monthly.deductions.tds),
                  amountsTotal(customDeductions)) ]_vars

\* no day paid: the payable gross is the fixed 4000 plus the custom 750, the custom
\* deductions of 375 are still taken
C5_Witness ==
    /\ selectedCalculator = "enhanced"
    /\ paymentDays = Zero
    /\ result.factor = Zero
    /\ Less(Zero, full.basic)
    /\ result.monthly.customEarningsTotal = Int2Num(750)
    /\ result.monthly.customDeductionsTotal = Int2Num(375)
    /\ result.monthly.grossPayable = Int2Num(4750)
    /\ Leq(Int2Num(375), result.monthly.totalDeductions)

(***************************************************************************)
(* C6  the 87A rebate of the new regime                                    *)
(***************************************************************************)
\* max(0, 12 * monthlyGross - standardDeduction)
taxableNewNow ==
    MathMax(Zero, Sub(Mul(Int2Num(12), monthlyGrossNow), policy.tds.standardDeduction))

\* C6: when TDS is applied under regime "new" and max(0, 12*monthlyGross -
\* standardDeduction) <= rebateThreshold, annual.taxProjected = 0 and
\* monthly.deductions.tds = 0, whatever the slab table and the cess rate.
C6_RebateZeroesTax ==
    ( /\ policy.tds.apply
      /\ policy.tds.regime = "new"
      /\ Leq(taxableNewNow, policy.tds.rebate87AThreshold) )
    => /\ result.annual.taxProjected = Zero
       /\ deducted.tds = Zero

\* 600000 a year, taxable 550000 <= 700000, under a slab table taxing from the first rupee
C6_Witness ==
    /\ inputMode = "annual"
    /\ annualGross = Int2Num(600000)
    /\ policy.tds.apply
    /\ policy.tds.regime = "new"
    /\ policy.tds.slabsNew = otherSlabsNew
    /\ taxableNewNow = Int2Num(550000)
    /\ Less(Zero, computeSlabTax(taxableNewNow, policy.tds.slabsNew))
    /\ monthDays = One
    /\ result.annual.taxProjected = Zero
    /\ deducted.tds = Zero

(***************************************************************************)
(* C7  computeSlabTax is monotone                                          *)
(***************************************************************************)
\* C7: for a slab table with strictly ascending upper bounds, an unbounded last slab and
\* non-negative rates, a <= b implies computeSlabTax(a, slabs) <= computeSlabTax(b, slabs).
C7_SlabTaxMonotone ==
    (slabTax # NoCall /\ Leq(slabCall.a, slabCall.b)) => Leq(slabTax.a, slabTax.b)

\* two amounts in different slabs of a table of three slabs, taxed differently
C7_Witness ==
    /\ slabTax # NoCall
    /\ Len(slabCall.slabs) = 3
    /\ Less(slabCall.a, slabCall.slabs[1].upto)
    /\ Less(slabCall.slabs[2].upto, slabCall.b)
    /\ Less(Zero, slabTax.a)
    /\ Less(slabTax.a, slabTax.b)

(***************************************************************************)
(* C8  provident fund                                                      *)
(***************************************************************************)
\* basicFull * factor, capped at wageCeiling when restrictBaseToCeiling is set
pfBaseNow ==
    LET b == Mul(full.basic, result.factor)
    IN  IF policy.pf.restrictBaseToCeiling THEN MathMin(b, policy.pf.wageCeiling) ELSE b

\* pfEE and vpfEE are round(pfBase * rate); gross 100000 with basic 40%, ceiling 15000 and
\* rate 12% gives 1800
pfContributions ==
    /\ policy.pf.apply =>
          /\ deducted.pfEE = MathRound(Mul(pfBaseNow, policy.pf.employeeRate))
          /\ deducted.vpfEE = IF Less(Zero, policy.pf.vpfRate)
                              THEN MathRound(Mul(pfBaseNow, policy.pf.vpfRate))
                              ELSE Zero
    /\ ( /\ monthlyGrossNow = Int2Num(100000)
         /\ policy.basicPctOfGross = Pct(40)
         /\ policy.pf = defaultPolicy.pf
         /\ result.factor = One )
       => deducted.pfEE = Int2Num(1800)

\* C8 (as stated): when PF is applied, pfEE = round(pfBase * employeeRate), pfBase being
\* basicFull * factor capped at wageCeiling after proration when restrictBaseToCeiling is
\* set; with the cap on, pfEE never exceeds round(wageCeiling * employeeRate); vpfEE uses
\* the same base with vpfRate and is 0 when vpfRate <= 0.
C8_PfCappedAnyRate ==
    /\ pfContributions
    /\ (policy.pf.apply /\ policy.pf.restrictBaseToCeiling) =>
          Leq(deducted.pfEE, MathRound(Mul(policy.pf.wageCeiling, policy.pf.employeeRate)))

\* C8 (amended): as stated, except that with the cap on pfEE never exceeds
\* round(wageCeiling * employeeRate) when employeeRate >= 0; for a negative employeeRate
\* pfEE is round(pfBase * employeeRate) all the same and lies above that value whenever
\* pfBase is below the ceiling.
C8_PfCapped ==
    /\ pfContributions
    /\ (policy.pf.apply /\ policy.pf.restrictBaseToCeiling
          /\ Leq(Zero, policy.pf.employeeRate)) =>
          Leq(deducted.pfEE, MathRound(Mul(policy.pf.wageCeiling, policy.pf.employeeRate)))

\* half a month on a Basic of 40000: the prorated 20000 is capped to 15000, pfEE is 1800
C8_Witness ==
    /\ monthlyGrossNow = Int2Num(100000)
    /\ full.basic = Int2Num(40000)
    /\ result.factor = Num(1, 2)
    /\ policy.pf.apply
    /\ policy.pf.restrictBaseToCeiling
    /\ policy.pf.employeeRate = Pct(12)
    /\ Less(Zero, policy.pf.vpfRate)
    /\ pfBaseNow = Int2Num(15000)
    /\ deducted.pfEE = Int2Num(1800)
    /\ deducted.vpfEE = Int2Num(750)

(***************************************************************************)
(* C9  state insurance                                                     *)
(***************************************************************************)
\* esi.apply and monthlyGross <= monthlyThreshold, in the enhanced calculator
esiEligibleNow ==
    policy.esi.apply /\ Leq(monthlyGrossNowE, policy.esi.monthlyThreshold)

\* the prorated payable gross: prorated basic, hra and special, the fixed allowances and
\* the custom earnings
grossPayableNow ==
    Add(Add(Add(earned.basic, earned.hra), earned.special),
        Add(Add(Add(fixed.conveyance, fixed.medical), fixed.lunch),
            amountsTotal(customEarnings)))

\* C9: flags.esiEligible = (esi.apply and monthlyGross <= monthlyThreshold) on the
\* un-prorated monthly gross, the boundary counted as eligible, so eligibility never changes
\* with paymentDays; esiEE is round(grossPayable * employeeRate) when eligible, grossPayable
\* being the prorated payable gross including custom earnings, and 0 otherwise.
C9_EsiEligibility ==
    /\ [](/\ result.flags.esiEligible <=> esiEligibleNow
          /\ result.monthly.grossPayable = grossPayableNow
          /\ deducted.esiEE = IF esiEligibleNow
                              THEN MathRound(Mul(grossPayableNow, policy.esi.employeeRate))
                              ELSE Zero)
    /\ [][result'.flags.esiEligible = result.flags.esiEligible]_vars

\* a gross of exactly the threshold 21000, half a month paid, custom earnings of 750
C9_Witness ==
    /\ selectedCalculator = "enhanced"
    /\ policy.esi.apply
    /\ monthlyGrossNowE = policy.esi.monthlyThreshold
    /\ result.factor = Num(1, 2)
    /\ amountsTotal(customEarnings) = Int2Num(750)
    /\ result.flags.esiEligible
    /\ deducted.esiEE = MathRound(Mul(grossPayableNow, policy.esi.employeeRate))
    /\ Less(Zero, deducted.esiEE)

(***************************************************************************)
(* C10  professional tax and TDS are flat                                  *)
(***************************************************************************)
\* the annual tax projected from 12 * monthlyGross
taxProjectedNow ==
    IF policy.tds.apply
    THEN MathRound(Mul(TaxCore(Taxable(monthlyGrossNow, policy, additionalExemptionsAnnual),
                               policy),
                       Add(One, policy.tds.cessRate)))
    ELSE Zero

\* C10: a change of paymentDays or monthDays (all other inputs held fixed) changes neither
\* monthly.deductions.pt nor monthly.deductions.tds nor annual.taxProjected: professional
\* tax is the flat round(monthlyAmount) and TDS is projected from 12 * monthlyGross, never
\* from the prorated gross, so both are deducted in full even when the factor is 0.
C10_PtAndTdsNotProrated ==
    [][ /\ result'.monthly.deductions.pt = result.monthly.deductions.pt
        /\ result'.monthly.deductions.tds = result.monthly.deductions.tds
        /\ result'.annual.taxProjected = result.annual.taxProjected
        /\ result'.monthly.deductions.pt =
              (IF policy.pt.apply THEN MathRound(policy.pt.monthlyAmount) ELSE Zero)
        /\ result'.annual.taxProjected = taxProjectedNow
        /\ result'.monthly.deductions.tds = MathRound(Div(taxProjectedNow, Int2Num(12)))
      ]_vars

\* no day paid on a gross of 100000: professional tax 200 and the full TDS are deducted
C10_Witness ==
    /\ monthlyGrossNow = Int2Num(100000)
    /\ paymentDays = Zero
    /\ result.factor = Zero
    /\ earned.basic = Zero
    /\ deducted.pt = Int2Num(200)
    /\ Less(Zero, deducted.tds)
    /\ result.flags.negativeNet

(***************************************************************************)
(* C11  additional exemptions count under the old regime only              *)
(***************************************************************************)
\* max(0, 12 * monthlyGross - standardDeduction - exemptions)
taxableOld(exemptions) ==
    MathMax(Zero, Sub(Sub(Mul(Int2Num(12), monthlyGrossNow), policy.tds.standardDeduction),
                      exemptions))

\* C11: under regime "new" the whole result is the same whatever additionalExemptionsAnnual
\* is; under regime "old" the taxable income is max(0, 12*monthlyGross - standardDeduction -
\* additionalExemptionsAnnual), never negative, and the tax is projected from it.
C11_ExemptionsOldRegimeOnly ==
    [][ /\ (policy.tds.regime = "new" /\ paymentDays' = paymentDays) => result' = result
        /\ policy.tds.regime = "old" =>
              /\ Taxable(monthlyGrossNow, policy, additionalExemptionsAnnual')
                    = taxableOld(additionalExemptionsAnnual')
              /\ Leq(Zero, Taxable(monthlyGrossNow, policy, additionalExemptionsAnnual'))
              /\ policy.tds.apply =>
                    result'.annual.taxProjected =
                       MathRound(Mul(computeSlabTax(taxableOld(additionalExemptionsAnnual'),
                                                    policy.tds.slabsOld),
                                     Add(One, policy.tds.cessRate))) ]_vars

\* exemptions of 150000 typed under the new regime on a gross that is taxed
C11_Witness ==
    /\ policy.tds.apply
    /\ policy.tds.regime = "new"
    /\ additionalExemptionsAnnual = Int2Num(150000)
    /\ monthlyGrossNow = Int2Num(100000)
    /\ Less(Zero, deducted.tds)
    /\ result = calculatePayroll([Args(monthDays, paymentDays) EXCEPT
                                     !.additionalExemptionsAnnual = Zero])

(***************************************************************************)
(* C12  totals, net pay and the negativeNet flag                           *)
(***************************************************************************)
\* C12: in every result monthly.totalDeductions = pfEE + vpfEE + esiEE + pt + tds +
\* customDeductionsTotal, monthly.netPay = monthly.grossPayable - monthly.totalDeductions and
\* flags.negativeNet is true exactly when netPay < 0; a negative netPay is returned as it is,
\* neither clamped nor rejected.
C12_TotalsAndNegativeNet ==
    /\ result.monthly.totalDeductions =
          Add(Add(Add(Add(Add(deducted.pfEE, deducted.vpfEE), deducted.esiEE), deducted.pt),
                  deducted.tds),
              amountsTotal(customDeductions))
    /\ result.monthly.netPay =
          Sub(result.monthly.grossPayable, result.monthly.totalDeductions)
    /\ result.flags.negativeNet <=> Less(result.monthly.netPay, Zero)
    /\ Less(result.monthly.grossPayable, result.monthly.totalDeductions)
          => /\ Less(result.monthly.netPay, Zero)
             /\ result.flags.negativeNet

\* no day paid on a gross of 100000 with custom deductions of 375: the deductions exceed
\* the payable gross of 4750 and the net pay returned is below 0
C12_Witness ==
    /\ selectedCalculator = "enhanced"
    /\ monthlyGrossNowE = Int2Num(100000)
    /\ result.factor = Zero
    /\ amountsTotal(customDeductions) = Int2Num(375)
    /\ result.monthly.grossPayable = Int2Num(4750)
    /\ Less(Int2Num(4750), result.monthly.totalDeductions)
    /\ Less(result.monthly.netPay, Zero)
    /\ result.flags.negativeNet

(***************************************************************************)
(* C13  the annual block is a full, un-prorated year                       *)
(***************************************************************************)
\* 12 * (basicFull + hraFull + specialFull + fixedFull + customEarningsTotal) of a result r
annualEarned(r) ==
    Mul(Int2Num(12),
        Add(Add(Add(Add(r.monthly.earningsFull.basic, r.monthly.earningsFull.hra),
                    r.monthly.earningsFull.special),
                fixedFullNow),
            amountsTotal(customEarnings)))

\* C13: the annual block (annual.earnings, gross, deductions, totalDeductions, netPay,
\* taxProjected) is computed from full-month figures and no change of paymentDays or
\* monthDays changes it; annual.netPay = 12 * (basicFull + hraFull + specialFull + fixedFull
\* + customEarningsTotal) - annual.totalDeductions.
C13_AnnualBlockNotProrated ==
    [][ /\ result'.annual = result.annual
        /\ result'.annual.earnings.basic
              = Mul(Int2Num(12), result'.monthly.earningsFull.basic)
        /\ result'.annual.earnings.hra = Mul(Int2Num(12), result'.monthly.earningsFull.hra)
        /\ result'.annual.earnings.special
              = Mul(Int2Num(12), result'.monthly.earningsFull.special)
        /\ result'.annual.gross = Mul(Int2Num(12), monthlyGrossNowE)
        /\ result'.annual.netPay
              = Sub(annualEarned(result'), result'.annual.totalDeductions) ]_vars

\* half a month paid: the monthly Basic is prorated, the annual Basic is 12 full months and
\* the annual net counts 12 times the custom earnings of 750
C13_Witness ==
    /\ selectedCalculator = "enhanced"
    /\ result.factor = Num(1, 2)
    /\ amountsTotal(customEarnings) = Int2Num(750)
    /\ Less(earned.basic, full.basic)
    /\ result.annual.earnings.basic = Mul(Int2Num(12), full.basic)
    /\ result.annual.netPay = Sub(annualEarned(result), result.annual.totalDeductions)
    /\ Less(Mul(Int2Num(12), result.monthly.netPay), result.annual.netPay)

(***************************************************************************)
(* C14  annual PF, VPF, ESI and PT against the monthly ones (Calculator1)  *)
(***************************************************************************)
\* C14: for PF, VPF, ESI and PT the annual deduction shown is 12 times the monthly
\* deduction shown: annual.deductions.pfEE = 12 * monthly.deductions.pfEE, and likewise
\* vpfEE, esiEE and pt, for every input the calculator accepts.
C14_AnnualIsTwelveMonthly ==
    /\ result.annual.deductions.pfEE = Mul(Int2Num(12), deducted.pfEE)
    /\ result.annual.deductions.vpfEE = Mul(Int2Num(12), deducted.vpfEE)
    /\ result.annual.deductions.esiEE = Mul(Int2Num(12), deducted.esiEE)
    /\ result.annual.deductions.pt = Mul(Int2Num(12), deducted.pt)

(***************************************************************************)
(* C15  computeSlabTax terminates on every finite slab table               *)
(***************************************************************************)
\* C15: computeSlabTax always terminates and returns a value, without throwing, for every
\* finite slab table, the malformed ones included (bounds not ascending, no unbounded last
\* slab, an empty table); the loop makes at most one iteration per slab, and calculatePayroll,
\* which calls it once, gets that value.
C15_SlabLoopTerminates ==
    /\ [](/\ slabRun.iterations <= Len(slabCall.slabs)
          /\ slabRun.pc = "done" =>
                /\ IsFinite(slabTax.a)
                /\ slabTax.a = computeSlabTax(slabCall.a, slabCall.slabs))
    /\ <>(slabRun.pc = "done")

\* a table whose bounds descend and whose last slab is bounded, walked to its end
C15_Witness ==
    /\ slabRun.pc = "done"
    /\ Len(slabCall.slabs) = 2
    /\ Less(slabCall.slabs[2].upto, slabCall.slabs[1].upto)
    /\ IsFinite(slabCall.slabs[1].upto)
    /\ Less(slabCall.slabs[1].upto, slabCall.a)
    /\ slabRun.iterations = 2
    /\ Less(Zero, slabTax.a)

(***************************************************************************)
(* C17  the deduction toggles                                              *)
(***************************************************************************)
\* C17: whenever pf.apply is false pfEE and vpfEE are 0, whenever esi.apply is false esiEE
\* is 0, whenever pt.apply is false pt is 0, and whenever tds.apply is false tds and
\* annual.taxProjected are 0, in the monthly and in the annual deductions alike, whatever
\* rates and amounts are configured.
C17_TogglesSwitchDeductionsOff ==
    /\ ~policy.pf.apply =>
          /\ deducted.pfEE = Zero /\ deducted.vpfEE = Zero
          /\ result.annual.deductions.pfEE = Zero
          /\ result.annual.deductions.vpfEE = Zero
    /\ ~policy.esi.apply =>
          /\ deducted.esiEE = Zero
          /\ result.annual.deductions.esiEE = Zero
    /\ ~policy.pt.apply =>
          /\ deducted.pt = Zero
          /\ result.annual.deductions.pt = Zero
    /\ ~policy.tds.apply =>
          /\ deducted.tds = Zero
          /\ result.annual.deductions.tds = Zero
          /\ result.annual.taxProjected = Zero

\* PF switched off with a voluntary rate of 5% still configured, on a Basic that is paid
C17_Witness ==
    /\ selectedCalculator = "enhanced"
    /\ ~policy.pf.apply
    /\ Less(Zero, policy.pf.vpfRate)
    /\ Less(Zero, policy.pf.employeeRate)
    /\ result.factor = Num(1, 2)
    /\ Less(Zero, earned.basic)
    /\ deducted.pfEE = Zero
    /\ deducted.vpfEE = Zero
    /\ result.annual.deductions.vpfEE = Zero

(***************************************************************************)
(* C18  the ERPNext export carries full-month figures                      *)
(***************************************************************************)
\* C18: the Basic, HRA and Special Allowance amounts of the ERPNext salary-assignment export
\* are earningsFull.basic, earningsFull.hra and earningsFull.special, so the exported earnings
\* do not change when paymentDays or monthDays change, and the exported Income Tax (TDS)
\* amount is always 0.
C18_ExportCarriesFullMonth ==
    /\ [](exported # NoCall =>
             /\ exported.earnings[1] = Component("Basic", full.basic)
             /\ exported.earnings[2] = Component("HRA", full.hra)
             /\ exported.earnings[3] = Component("Special Allowance", full.special)
             /\ exported.deductions[1] = Component("Income Tax (TDS)", Zero))
    /\ [][exported # NoCall /\ exported' # NoCall
             => exported'.earnings = exported.earnings]_vars

\* an export from the enhanced calculator in a half-paid month with TDS deducted: it carries
\* the full Basic, the two custom earnings and a TDS amount of 0
C18_Witness ==
    /\ selectedCalculator = "enhanced"
    /\ exported # NoCall
    /\ result.factor = Num(1, 2)
    /\ Less(earned.basic, full.basic)
    /\ Less(Zero, deducted.tds)
    /\ exported.earnings[1].amount = full.basic
    /\ Len(exported.earnings) = 8
    /\ exported.deductions[1].amount = Zero

(***************************************************************************)
(* C19  the rounding chain of the prorated earnings                        *)
(***************************************************************************)
\* Math.round(monthlyGross * basicPctOfGross * hraPctOfBasic): HRA had basicFull not been
\* rounded first
hraOfUnroundedBasic ==
    MathRound(Mul(Mul(monthlyGrossNowE, policy.basicPctOfGross), policy.hraPctOfBasic))

\* C19: prorated earnings are each rounded separately from the already-rounded full-month
\* values: basic = round(basicFull * factor), hra = round(hraFull * factor), special =
\* round(specialFull * factor), with hraFull = round(basicFull * hraPctOfBasic) taken from
\* the rounded basicFull; monthly.grossPayable = basic + hra + special + conveyance +
\* medical + lunch + customEarningsTotal; 15 days paid of 30 give factor 1/2.
C19_ProratedFromRoundedFull ==
    /\ FactorE(Int2Num(15), Int2Num(30)) = Num(1, 2)
    /\ full.basic = MathRound(Mul(monthlyGrossNowE, policy.basicPctOfGross))
    /\ full.hra = MathRound(Mul(full.basic, policy.hraPctOfBasic))
    /\ earned.basic = MathRound(Mul(full.basic, result.factor))
    /\ earned.hra = MathRound(Mul(full.hra, result.factor))
    /\ earned.special = MathRound(Mul(full.special, result.factor))
    /\ result.monthly.grossPayable =
          Add(Add(Add(Add(Add(Add(earned.basic, earned.hra), earned.special),
                          earned.conveyance), earned.medical), earned.lunch),
              result.monthly.customEarningsTotal)

\* half a month paid where half the full Basic is not a whole number and where HRA taken
\* from the unrounded Basic would differ, so that both roundings show
C19_Witness ==
    /\ selectedCalculator = "enhanced"
    /\ result.factor = Num(1, 2)
    /\ earned.basic # Mul(full.basic, result.factor)
    /\ earned.basic = MathRound(Mul(full.basic, Num(1, 2)))
    /\ full.hra # hraOfUnroundedBasic
    /\ Less(Zero, result.monthly.customEarningsTotal)

(***************************************************************************)
(* C20  the early exit of computeSlabTax                                   *)
(***************************************************************************)
\* the upper bound of the slab before slab i, 0 before the first
previousUpto(slabs, i) == IF i = 1 THEN Zero ELSE slabs[i - 1].upto

RECURSIVE everySlabFrom(_, _, _)
\* the sum over the slabs i .. Len(slabs) of rate * max(0, min(amount, upto) - previousUpto)
everySlabFrom(amount, slabs, i) ==
    IF i > Len(slabs) THEN Zero
    ELSE Add(Mul(slabs[i].rate,
                 MathMax(Zero, Sub(MathMin(amount, slabs[i].upto), previousUpto(slabs, i)))),
             everySlabFrom(amount, slabs, i + 1))

\* C20: for every slab table with ascending upper bounds, the early exit of computeSlabTax
\* returns the same total as walking every slab: the result equals the sum over all slabs
\* of rate * max(0, min(taxableAmount, upto) - previousUpto), every slab after the one
\* holding the amount contributing 0.
C20_EarlyExitEqualsFullWalk ==
    slabTax # NoCall =>
        /\ slabTax.a = everySlabFrom(slabCall.a, slabCall.slabs, 1)
        /\ slabTax.b = everySlabFrom(slabCall.b, slabCall.slabs, 1)
        /\ \A i \in 1 .. (Len(slabCall.slabs) - 1) :
              Leq(slabCall.a, slabCall.slabs[i].upto)
                 => everySlabFrom(slabCall.a, slabCall.slabs, i + 1) = Zero

\* an amount inside the first of three slabs, all three taxed: the loop leaves after the
\* first slab and the two slabs it skips would have added nothing
C20_Witness ==
    /\ slabTax # NoCall
    /\ Len(slabCall.slabs) = 3
    /\ Less(Zero, slabCall.a)
    /\ Less(slabCall.a, slabCall.slabs[1].upto)
    /\ \A i \in 1 .. 3 : Less(Zero, slabCall.slabs[i].rate)
    /\ slabTax.a = Mul(slabCall.slabs[1].rate, slabCall.a)
    /\ Less(slabCall.slabs[2].upto, slabCall.b)
    /\ Less(slabTax.a, slabTax.b)

(***************************************************************************)
(* C21  the rebate is a step, and of the new regime only                   *)
(***************************************************************************)
\* the taxable income of the regime selected
taxableIncomeNow ==
    IF policy.tds.regime = "new" THEN taxableNewNow
    ELSE taxableOld(additionalExemptionsAnnual)

\* round(computeSlabTax(taxableIncome, regimeSlabs) * (1 + cessRate))
taxOnFullSlabAmount ==
    MathRound(Mul(computeSlabTax(taxableIncomeNow,
                                 IF policy.tds.regime = "new" THEN policy.tds.slabsNew
                                 ELSE policy.tds.slabsOld),
                  Add(One, policy.tds.cessRate)))

\* C21: whenever TDS is applied, annual.taxProjected = round(computeSlabTax(taxableIncome,
\* regimeSlabs) * (1 + cessRate)) in every case except regime "new" with taxableIncome <=
\* rebateThreshold; under regime "old" the result is the same for every rebate threshold,
\* and under regime "new" a taxable income one unit above the threshold is taxed on the
\* full slab amount.
C21_RebateIsStepOfNewRegime ==
    policy.tds.apply =>
       /\ ~(policy.tds.regime = "new"
              /\ Leq(taxableIncomeNow, policy.tds.rebate87AThreshold))
             => result.annual.taxProjected = taxOnFullSlabAmount
       /\ policy.tds.regime = "old"
             => \A t \in RebateThresholds :
                   calculatePayroll([Args(monthDays, paymentDays)
                                        EXCEPT !.policy.tds.rebate87AThreshold = t]) = result
       /\ (policy.tds.regime = "new"
              /\ Sub(taxableIncomeNow, policy.tds.rebate87AThreshold) = One)
             => result.annual.taxProjected = taxOnFullSlabAmount

\* 40000 a month under the new regime with the threshold at 429999, the regime switched
\* from "old" with one day of 30 paid: the taxable 430000 is one above the threshold and the
\* tax is the full 6500 plus cess; at the threshold it would have been 0
C21_Witness ==
    /\ policy.tds.apply
    /\ policy.tds.regime = "new"
    /\ taxableIncomeNow = Int2Num(430000)
    /\ policy.tds.rebate87AThreshold = Int2Num(429999)
    /\ result.annual.taxProjected = Int2Num(6760)
    /\ result.factor = Num(1, 30)
    /\ calculatePayroll([Args(monthDays, paymentDays)
                            EXCEPT !.policy.tds.rebate87AThreshold = Int2Num(430000)])
          .annual.taxProjected = Zero

(***************************************************************************)
(* C22  the day inputs handed to calculatePayroll                          *)
(***************************************************************************)
\* C22: in Calculator2 and the enhanced calculator, after any sequence of edits to the
\* Month Days and Payment Days inputs, in any order, starting from 30/30, the values handed
\* to calculatePayroll satisfy monthDays >= 1 and 0 <= paymentDays <= monthDays.
C22_DaysInRange ==
    /\ Leq(One, monthDays)
    /\ Leq(Zero, paymentDays)
    /\ Leq(paymentDays, monthDays)

(***************************************************************************)
(* C23  loadPreset quick-fills from the preset list                        *)
(***************************************************************************)
\* some preset of the list has that name
named(list, name) == \E i \in 1 .. Len(list) : list[i].name = name

\* C23: loadPreset(name), if a preset with that name exists, sets employee = name,
\* inputMode = "monthly", the monthly gross to the preset's gross and the fixed allowances to
\* the preset's, so that the engine's monthlyGross becomes the preset's gross whatever the
\* input mode and the annual figure were, while policy, monthDays, paymentDays and the
\* preset list stay unchanged; if no preset has that name, no state changes at all.
C23_LoadPresetQuickFills ==
    [][ lastCall'.op = "loadPreset" =>
          IF named(presets, lastCall'.name)
          THEN \E i \in 1 .. Len(presets) :
                  /\ presets[i].name = lastCall'.name
                  /\ \A j \in 1 .. (i - 1) : presets[j].name # lastCall'.name
                  /\ employee' = lastCall'.name
                  /\ inputMode' = "monthly"
                  /\ grossMonthlyManual' = NumOf(presets[i].gross)
                  /\ fixed'.conveyance = NumOf(presets[i].fixed.conveyance)
                  /\ fixed'.medical = NumOf(presets[i].fixed.medical)
                  /\ fixed'.lunch = NumOf(presets[i].fixed.lunch)
                  /\ MonthlyGross(inputMode', annualGross', grossMonthlyManual')
                        = NumOf(presets[i].gross)
                  /\ result'.annual.gross = Mul(NumOf(presets[i].gross), Int2Num(12))
                  /\ result'.monthly.earningsFull.conveyance
                        = NumOf(presets[i].fixed.conveyance)
                  /\ UNCHANGED <<policy, monthDays, paymentDays, annualGross, presets>>
          ELSE UNCHANGED <<calculatorVars, presets, showAddForm, newEmployeeMode,
                           newEmployee>> ]_vars

\* Arun Saathappan loaded into a calculator that was in annual mode at 600000 a year: the
\* engine now runs on his 83332 a month
C23_Witness ==
    /\ lastCall = [op |-> "loadPreset", name |-> "Arun Saathappan"]
    /\ employee = "Arun Saathappan"
    /\ inputMode = "monthly"
    /\ annualGross = Int2Num(600000)
    /\ grossMonthlyManual = Int2Num(83332)
    /\ fixed.lunch = Int2Num(2200)
    /\ result.annual.gross = Int2Num(999984)

(***************************************************************************)
(* C24  removeEmployee, and addEmployee with a blank name                  *)
(***************************************************************************)
RECURSIVE othersFrom(_, _, _)
\* the presets from the i-th on that are not called name, in their order
othersFrom(list, name, i) ==
    IF i > Len(list) THEN <<>>
    ELSE IF list[i].name = name THEN othersFrom(list, name, i + 1)
    ELSE <<list[i]>> \o othersFrom(list, name, i + 1)

\* C24: removeEmployee(name) with the confirmation accepted leaves no preset with that name
\* in the list and keeps every other preset, in its original order; with the confirmation
\* declined the preset list is unchanged; addEmployee with a blank (whitespace-only) name
\* leaves the preset list and the form unchanged.
C24_RemoveAndBlankAdd ==
    [][ /\ (lastCall'.op = "removeEmployee" /\ lastCall'.confirmed)
             => /\ ~named(presets', lastCall'.name)
                /\ presets' = othersFrom(presets, lastCall'.name, 1)
        /\ (lastCall'.op = "removeEmployee" /\ ~lastCall'.confirmed)
             => presets' = presets
        /\ (lastCall'.op = "addEmployee" /\ newEmployee.name \in {"", " "})
             => UNCHANGED <<presets, newEmployee, showAddForm, newEmployeeMode>> ]_vars

\* Arun Saathappan removed from between two default presets and an added Asha
C24_Witness ==
    /\ lastCall = [op |-> "removeEmployee", name |-> "Arun Saathappan", confirmed |-> TRUE]
    /\ Len(presets) = 3
    /\ presets[1].name = "Snigdha Mohapatra"
    /\ presets[2].name = "Pulicharla Gopi Krishna"
    /\ presets[3].name = "Asha"

(***************************************************************************)
(* C28  preset names as keys                                               *)
(***************************************************************************)
\* C28: after any sequence of addEmployee and removeEmployee operations starting from the
\* default presets, the preset names in the list are pairwise distinct.
C28_PresetNamesDistinct ==
    \A i \in 1 .. Len(presets), j \in 1 .. Len(presets) :
        i # j => presets[i].name # presets[j].name

(***************************************************************************)
(* C25  prorated components within their full values, gross payable        *)
(*      monotone in the days paid                                          *)
(***************************************************************************)
\* payment days the engine is called with beside the one in the state
ProrationDays ==
    {Int2Num(k) : k \in (0 - 1) .. (MaxDays + 1)} \cup {Num(3, 2), Int2Num(DefaultDays)}

\* monthly.grossPayable of the mounted calculator's engine with d as paymentDays and every
\* other input as in the state
grossPayableAt(d) ==
    IF selectedCalculator = "enhanced"
    THEN calculatePayrollE(ArgsE(monthDays, d)).monthly.grossPayable
    ELSE calculatePayroll(Args(monthDays, d)).monthly.grossPayable

\* C25: with a gross >= 0 and basic and HRA fractions in [0, 1], every prorated component
\* of the result lies between 0 and its full-month value, and the engine's grossPayable
\* for fewer payment days than the state's is never higher, for more never lower.
C25_ProratedBoundedAndMonotone ==
    LET e == result.monthly.earnings
        f == result.monthly.earningsFull
        g == IF selectedCalculator = "enhanced"
             THEN MonthlyGrossE(inputMode, annualGross, grossMonthlyManual)
             ELSE MonthlyGross(inputMode, annualGross, grossMonthlyManual)
    IN  ( /\ Leq(Zero, g)
          /\ Leq(Zero, policy.basicPctOfGross) /\ Leq(policy.basicPctOfGross, One)
          /\ Leq(Zero, policy.hraPctOfBasic) /\ Leq(policy.hraPctOfBasic, One) )
        => /\ Leq(Zero, e.basic) /\ Leq(e.basic, f.basic)
           /\ Leq(Zero, e.hra) /\ Leq(e.hra, f.hra)
           /\ Leq(Zero, e.special) /\ Leq(e.special, f.special)
           /\ \A d \in ProrationDays :
                 /\ Leq(d, paymentDays)
                       => Leq(grossPayableAt(d), result.monthly.grossPayable)
                 /\ Leq(paymentDays, d)
                       => Leq(result.monthly.grossPayable, grossPayableAt(d))

\* half the month paid in the enhanced calculator: basic 8000 of 16000, with custom earnings
C25_Witness ==
    /\ selectedCalculator = "enhanced"
    /\ customEarnings # <<>>
    /\ result.factor = Num(1, 2)
    /\ result.monthly.earningsFull.basic = Int2Num(16000)
    /\ result.monthly.earnings.basic = Int2Num(8000)
    /\ result.monthly.earnings.special = Int2Num(6000)

(***************************************************************************)
(* C26  enhanced calculator, full attendance: the annual view against      *)
(*      twelve times the monthly view                                      *)
(***************************************************************************)
RECURSIVE wholeAmounts(_, _)
wholeAmounts(list, i) ==
    IF i > Len(list) THEN TRUE
    ELSE IsInteger(list[i].amount) /\ wholeAmounts(list, i + 1)

\* C26: in the enhanced calculator, with paymentDays = monthDays >= 1 and whole-number
\* gross, fixed allowances and custom amounts, annual.totalDeductions is 12 times
\* monthly.totalDeductions and annual.netPay is 12 times monthly.netPay.
C26_AnnualIsTwelveMonths ==
    ( /\ selectedCalculator = "enhanced"
      /\ paymentDays = monthDays
      /\ Leq(One, monthDays)
      /\ IsInteger(MonthlyGrossE(inputMode, annualGross, grossMonthlyManual))
      /\ IsInteger(fixed.conveyance) /\ IsInteger(fixed.medical) /\ IsInteger(fixed.lunch)
      /\ wholeAmounts(customEarnings, 1)
      /\ wholeAmounts(customDeductions, 1) )
    => /\ result.annual.totalDeductions = Mul(result.monthly.totalDeductions, Int2Num(12))
       /\ result.annual.netPay = Mul(result.monthly.netPay, Int2Num(12))

(***************************************************************************)
(* C27  annual TDS is twelve rounded months, within 6 of the projected tax *)
(***************************************************************************)
\* C27: annual.deductions.tds is 12 times monthly.deductions.tds, differs from
\* annual.taxProjected by at most 6 and equals it exactly when taxProjected is a multiple
\* of 12; annual.totalDeductions is the four other annual deductions plus 12 times the
\* monthly TDS, and annual.netPay is the annual earnings less that total.
C27_AnnualTdsOfRoundedMonths ==
    LET a    == result.annual
        tds  == result.monthly.deductions.tds
        e    == a.earnings
        tds12 == Mul(tds, Int2Num(12))
    IN  /\ a.deductions.tds = tds12
        /\ Leq(Int2Num(0 - 6), Sub(a.deductions.tds, a.taxProjected))
        /\ Leq(Sub(a.deductions.tds, a.taxProjected), Int2Num(6))
        /\ (a.deductions.tds = a.taxProjected) <=> IsInteger(Div(a.taxProjected, Int2Num(12)))
        /\ a.totalDeductions =
              Add(Add(Add(Add(a.deductions.pfEE, a.deductions.vpfEE), a.deductions.esiEE),
                      a.deductions.pt), tds12)
        /\ a.netPay =
              Sub(Sum(<<e.basic, e.hra, e.special, e.conveyance, e.medical, e.lunch>>),
                  a.totalDeductions)

\* a projected tax of 9354 = 779 * 12 + 6, six below the twelve rounded months of 780
C27_Witness ==
    /\ policy.tds.apply
    /\ result.annual.taxProjected = Int2Num(9354)
    /\ result.monthly.deductions.tds = Int2Num(780)
    /\ result.annual.deductions.tds = Int2Num(9360)
    /\ result.factor = Num(1, 30)

(***************************************************************************)
(* C29  the three copies of the engine return the same result              *)
(***************************************************************************)
\* the fields of a result the three engines have in common
commonFields(r) ==
    [ flags  |-> r.flags,
      factor |-> r.factor,
      monthly |-> [ earnings |-> r.monthly.earnings,
                    earningsFull |-> r.monthly.earningsFull,
                    grossPayable |-> r.monthly.grossPayable,
                    deductions |-> r.monthly.deductions,
                    totalDeductions |-> r.monthly.totalDeductions,
                    netPay |-> r.monthly.netPay ],
      annual |-> r.annual ]

\* the arguments of the render that produced the result of the mounted calculator
argsNow ==
    [ monthlyGross |->
          IF selectedCalculator = "calculator1"
          THEN MonthlyGross1(inputMode, annualGross, grossMonthlyManual)
          ELSE IF selectedCalculator = "enhanced"
          THEN MonthlyGrossE(inputMode, annualGross, grossMonthlyManual)
          ELSE MonthlyGross(inputMode, annualGross, grossMonthlyManual),
      fixedAllowances |-> fixed, policy |-> policy, monthDays |-> monthDays,
      paymentDays |-> paymentDays,
      additionalExemptionsAnnual |-> additionalExemptionsAnnual,
      customEarnings |-> <<>>, customDeductions |-> <<>> ]

\* C29: whichever calculator is mounted, the result it shows has the same flags, factor,
\* monthly earnings, earningsFull, grossPayable, deductions, totalDeductions, netPay and
\* annual block as each of the three engines returns for the arguments of that render
\* (the enhanced engine with empty custom lists).
C29_EngineCopiesAgree ==
    (customEarnings = <<>> /\ customDeductions = <<>>)
    => /\ commonFields(result) = commonFields(calculatePayroll(argsNow))
       /\ commonFields(result) = commonFields(usePayrollCalculator(argsNow))
       /\ commonFields(result) = commonFields(calculatePayrollE(argsNow))

\* Calculator1 with 0 month days and 2 payment days typed (the other two never get
\* there): factor 1, the VPF at 5% and a TDS deducted
C29_Witness ==
    /\ selectedCalculator = "calculator1"
    /\ monthDays = Zero
    /\ paymentDays = Int2Num(2)
    /\ result.factor = One
    /\ Less(Zero, result.monthly.deductions.vpfEE)
    /\ Less(Zero, result.monthly.deductions.tds)

====
